---------------------------- MODULE Spec2Model ----------------------------
(***************************************************************************)
(* A model of projects/git-commitment/main.go: the BLE fitness-telemetry   *)
(* aggregator (registry tables, notification decoders, MetricSource        *)
(* fan-out, connect mode with the aggregate metrics consumer).             *)
(*                                                                         *)
(* Eight specifications share the module:                                  *)
(*   SpecDecode  the two notification handlers applied to payloads drawn   *)
(*               from a bounded set (the decoding part, up to emit);       *)
(*   SpecSource  one MetricSource driven by a client that registers sinks, *)
(*               the transport that delivers notifications to its handler, *)
(*               and one consumer per sink channel;                        *)
(*   Spec        main() in connect mode, for up to two -device arguments;  *)
(*   SpecFlow    main() in connect mode with one target, more              *)
(*               notifications and scheduling fairness;                    *)
(*   SpecRetry   main() in connect mode with the failed connects of each   *)
(*               task recorded, and scheduling fairness;                   *)
(*   SpecScan    scanDevices(), the scan mode;                             *)
(*   SpecProgram main() as a whole: scan mode or connect mode, by flag;    *)
(*   SpecMap     MapContainer of src/web/js/main.js: clicks, the undo      *)
(*               button and the route requests.                            *)
(***************************************************************************)
EXTENDS Integers, Sequences, FiniteSets, TLC

(***************************************************************************)
(* Bounds of the model.                                                    *)
(***************************************************************************)
\* longest payload drawn in SpecDecode
MaxLen == 4
\* most AddSink calls the client of SpecSource makes
MaxSinks == 3
\* most notifications the transport delivers in one behaviour of
\* SpecSource, of Spec and of SpecFlow
MaxNotifs == 2
MaxMainNotifs == 1
MaxFlowNotifs == 3
\* most scan results the transport delivers in one behaviour of SpecScan
MaxScanResults == 3
\* SpecRetry: most notifications the transport delivers, and most failed
\* connects recorded per task (a task may fail more often than that)
MaxRetryNotifs == 1
MaxFailures == 1

(***************************************************************************)
(* Registry (main.go 13-50).  Identifiers are modelled by their names.     *)
(***************************************************************************)
CharacteristicUUIDCyclingPowerMeasurement == "CyclingPowerMeasurement"
CharacteristicUUIDHeartRateMeasurement == "HeartRateMeasurement"
CharacteristicUUIDCSCMeasurement == "CSCMeasurement"
\* the library's identifier of the second characteristic every
\* speed-and-cadence service has; main.go names none of the service's
\* characteristics
CharacteristicUUIDCSCFeature == "CSCFeature"

ServiceUUIDCyclingSpeedAndCadence == "CyclingSpeedAndCadence"
ServiceUUIDCyclingPower == "CyclingPower"
ServiceUUIDHeartRate == "HeartRate"

KnownServiceUUIDs ==
    <<ServiceUUIDCyclingSpeedAndCadence, ServiceUUIDCyclingPower, ServiceUUIDHeartRate>>

\* a Go map read: KnownServiceCharacteristicUUIDs[svc] is the nil slice for
\* a key the map does not hold
KnownServiceCharacteristicUUIDs(svc) ==
    IF svc = ServiceUUIDCyclingPower THEN <<CharacteristicUUIDCyclingPowerMeasurement>>
    ELSE IF svc = ServiceUUIDHeartRate THEN <<CharacteristicUUIDHeartRateMeasurement>>
    ELSE <<>>

\* a Go map read: KnownServiceNames[svc] is the empty string for a key the
\* map does not hold
KnownServiceNames(svc) ==
    IF svc = ServiceUUIDCyclingPower THEN "Cycling Power"
    ELSE IF svc = ServiceUUIDHeartRate THEN "Heart Rate"
    ELSE ""

\* type MetricKind (iota constants)
MetricHeartRate == 0
MetricCyclingPower == 1
MetricCyclingSpeed == 2
MetricCyclingCadence == 3

\* a constructor that labels every metric as a cycling speed
DeviceMetricAsSpeed(k, v) == [kind |-> MetricCyclingSpeed, value |-> v]

\* a Go map read: KnownCharacteristicNames[ch] is the empty string for a
\* key the map does not hold
KnownCharacteristicNames(ch) ==
    IF ch = CharacteristicUUIDCyclingPowerMeasurement THEN "Cycling Power Measure"
    ELSE IF ch = CharacteristicUUIDHeartRateMeasurement THEN "Heart Rate Measurement"
    ELSE ""

\* type DeviceMetric struct { kind; value }
DeviceMetric(k, v) == [kind |-> k, value |-> v]

(***************************************************************************)
(* Fixed-width integer helpers.                                            *)
(***************************************************************************)
Byte == 0..255

\* a & b on 16-bit operands, bit by bit from bit k upwards
RECURSIVE AndFrom(_, _, _)
AndFrom(a, b, k) ==
    IF k > 15 THEN 0
    ELSE (((a \div (2^k)) % 2) * ((b \div (2^k)) % 2)) * (2^k) + AndFrom(a, b, k + 1)

And(a, b) == AndFrom(a, b, 0)

\* x >> n
Shr(x, n) == x \div (2^n)

\* int16(x) of a uint16 x: two's complement reinterpretation
Int16(x) == IF x >= 32768 THEN x - 65536 ELSE x

\* Go slice expression b[from:] with a 0-based index (from <= len(b) at
\* every use in the handlers)
SliceFrom(b, from) == SubSeq(b, from + 1, Len(b))

\* binary.LittleEndian.Uint16(b): reads b[0] and b[1]; an index-out-of-range
\* panic when len(b) < 2
Uint16Panics(b) == Len(b) < 2

\* a read with the byte order swapped (binary.BigEndian)
BigEndianUint16(b) == 256 * b[1] + b[2]

LittleEndianUint16(b) == b[1] + 256 * b[2]

(***************************************************************************)
(* Heart Rate Measurement handler (main.go 126-170).                       *)
(***************************************************************************)
HeartRateFlagSize == 1
HeartRateFlagContactStatus == 6
HeartRateFlagHasEnergyExpended == 8
HeartRateFlagHasRRInterval == 16

\* the outcome of one handler call, up to and including its emit call:
\*   panics  the handler ends in a run-time panic (the process aborts)
\*   emits   the metrics handed to src.emit, in order (none or one)
\*   offset  the final value of the local `offset`, when the handler
\*           reaches the code that computes it (none or one)
Outcome(p, e, o) == [panics |-> p, emits |-> e, offset |-> o]

\* a decoder that takes the size flag from bit 3
Is16BitWrongBit(flag) == And(flag, HeartRateFlagHasEnergyExpended) # 0

Is16Bit(flag) == And(flag, HeartRateFlagSize) # 0

ContactStatus(flag) == Shr(And(flag, HeartRateFlagContactStatus), 1)

\* a decoder that reads "supported" from the low bit of the status field
ContactSupportedLowBit(flag) == And(ContactStatus(flag), 1) # 0

ContactSupported(flag) == And(ContactStatus(flag), 2) # 0

\* a decoder that reads "found" from flag bit 0, without the shift
ContactFoundUnshifted(flag) == And(flag, 1) # 0

\* a decoder that reads "found" from flag bit 3
ContactFoundHighBit(flag) == And(flag, HeartRateFlagHasEnergyExpended) # 0

ContactFound(flag) == And(ContactStatus(flag), 1) # 0

\* lines 161-164: var hr int = int(buf[1]); if is16Bit { hr = int(int16(...)) }
\* (called only when the 16-bit read does not panic)
HeartRateValueUnsigned(buf) ==
    IF Is16Bit(buf[1])
    THEN LittleEndianUint16(SliceFrom(buf, 1))
    ELSE buf[2]

HeartRateValue(buf) ==
    IF Is16Bit(buf[1])
    THEN Int16(LittleEndianUint16(SliceFrom(buf, 1)))
    ELSE buf[2]

handleHeartRateMeasurement(buf) ==
    IF Len(buf) < 2 THEN Outcome(FALSE, <<>>, <<>>)
    ELSE IF ContactSupported(buf[1]) /\ ~ContactFound(buf[1])
         THEN Outcome(FALSE, <<>>, <<>>)
    ELSE IF Is16Bit(buf[1]) /\ Uint16Panics(SliceFrom(buf, 1))
         THEN Outcome(TRUE, <<>>, <<>>)
    ELSE Outcome(FALSE, <<DeviceMetric(MetricHeartRate, HeartRateValue(buf))>>, <<>>)

(***************************************************************************)
(* Cycling Power Measurement handler (main.go 172-252).                    *)
(***************************************************************************)
CyclingPowerFlagHasPedalPowerBalance == 1
CyclingPowerFlagHasAccumulatedTorque == 4
CyclingPowerFlagHasWheelRevolution == 16
CyclingPowerFlagHasCrankRevolution == 32

\* an offset walk that skips the wheel revolution count (4 bytes) and
\* forgets the 2 bytes of its event time
CyclingPowerOffsetShortWheel(flags) ==
    4 + (IF And(flags, CyclingPowerFlagHasPedalPowerBalance) # 0 THEN 1 ELSE 0)
      + (IF And(flags, CyclingPowerFlagHasAccumulatedTorque) # 0 THEN 2 ELSE 0)
      + (IF And(flags, CyclingPowerFlagHasWheelRevolution) # 0 THEN 4 ELSE 0)
      + (IF And(flags, CyclingPowerFlagHasCrankRevolution) # 0 THEN 2 + 2 ELSE 0)

\* lines 228-250
CyclingPowerOffset(flags) ==
    4 + (IF And(flags, CyclingPowerFlagHasPedalPowerBalance) # 0 THEN 1 ELSE 0)
      + (IF And(flags, CyclingPowerFlagHasAccumulatedTorque) # 0 THEN 2 ELSE 0)
      + (IF And(flags, CyclingPowerFlagHasWheelRevolution) # 0 THEN 4 + 2 ELSE 0)
      + (IF And(flags, CyclingPowerFlagHasCrankRevolution) # 0 THEN 2 + 2 ELSE 0)

\* line 211: the length below which the handler returns at once
CyclingPowerMinLen == 2

\* a handler without the idle-frame check of lines 219-221
handleCyclingPowerMeasurementKeepZero(buf) ==
    IF Len(buf) < CyclingPowerMinLen THEN Outcome(FALSE, <<>>, <<>>)
    ELSE IF Uint16Panics(SliceFrom(buf, 0)) \/ Uint16Panics(SliceFrom(buf, 2))
         THEN Outcome(TRUE, <<>>, <<>>)
    ELSE LET flags == LittleEndianUint16(SliceFrom(buf, 0))
             powerWatts == Int16(LittleEndianUint16(SliceFrom(buf, 2)))
         IN  Outcome(FALSE, <<DeviceMetric(MetricCyclingPower, powerWatts)>>,
                     <<CyclingPowerOffset(flags)>>)

handleCyclingPowerMeasurement(buf) ==
    IF Len(buf) < CyclingPowerMinLen THEN Outcome(FALSE, <<>>, <<>>)
    ELSE IF Uint16Panics(SliceFrom(buf, 0)) \/ Uint16Panics(SliceFrom(buf, 2))
         THEN Outcome(TRUE, <<>>, <<>>)
    ELSE LET flags == LittleEndianUint16(SliceFrom(buf, 0))
             powerWatts == Int16(LittleEndianUint16(SliceFrom(buf, 2)))
         IN  IF powerWatts = 0 THEN Outcome(FALSE, <<>>, <<>>)
             ELSE Outcome(FALSE, <<DeviceMetric(MetricCyclingPower, powerWatts)>>,
                          <<CyclingPowerOffset(flags)>>)

\* MetricSource.notificationHandler: the handler bound to a characteristic,
\* "nil" in the default case
notificationHandler(uuid) ==
    IF uuid = CharacteristicUUIDCyclingPowerMeasurement THEN "handleCyclingPowerMeasurement"
    ELSE IF uuid = CharacteristicUUIDHeartRateMeasurement THEN "handleHeartRateMeasurement"
    ELSE "nil"

\* a call of the handler value that notificationHandler returned
CallHandler(h, buf) ==
    IF h = "handleCyclingPowerMeasurement" THEN handleCyclingPowerMeasurement(buf)
    ELSE IF h = "handleHeartRateMeasurement" THEN handleHeartRateMeasurement(buf)
    ELSE Outcome(TRUE, <<>>, <<>>)

(***************************************************************************)
(* MetricSource (main.go 66-124): the pure parts.                          *)
(***************************************************************************)
\* NewMetricSource(svc, ch), with the handler's position added:
\*   ch, sinks        the fields of the struct
\*   hpc              "idle", or "emit" while the handler is inside src.emit
\*   hm, hsnap, hi    emit's argument, the slice its range loop evaluated
\*                    once on entry, and the loop's position (1-based)
\*   hemit            history: the index in `emits` of the running emit
\*   ndecoded         history: notifications handed to the handler so far
NewMetricSource(ch) ==
    [ch |-> ch, sinks |-> <<>>, hpc |-> "idle",
     hm |-> DeviceMetric(0, 0), hsnap |-> <<>>, hi |-> 0, hemit |-> 0,
     ndecoded |-> 0]

\* a source that subscribes on every registration
ShouldSubscribeAlways(sinks) == Len(sinks) >= 1

\* AddSink line 95, evaluated after the append: if len(src.sinks) == 1
ShouldSubscribe(sinks) == Len(sinks) = 1

\* an emit whose loop re-reads src.sinks on every iteration
EmitTargetsLive(r) == r.sinks

\* emit line 121: `range src.sinks` iterates over the slice value it read
\* when the loop began
EmitTargets(r) == r.hsnap

(***************************************************************************)
(* State.                                                                  *)
(***************************************************************************)
VARIABLES
    decChar,    \* SpecDecode: the characteristic whose handler is applied
    decBuf,     \* SpecDecode: the payload
    decPc,      \* SpecDecode: "ready" before the handler ran, "done" after
    decOut,     \* SpecDecode: the handler's outcome
    src,        \* the MetricSources constructed so far: id -> record
    sub,        \* the subscriptions the transport holds: id -> handler
    chanRecv,   \* per sink channel, its consumer: "recv" (blocked in the
                \* receive) or "got" (holds a metric, about to print it)
    aborted,    \* the process has panicked
    fatal,      \* history: the call whose failure made it panic ("" if none)
    notifs,     \* notifications the transport may still deliver (a bound)
    enableLog,  \* history: the EnableNotifications calls, in order
    emits,      \* history: the emit calls, in order
    deliveries, \* history: the accepted channel sends, in order
    flagDeviceAddrs, \* the -device arguments, in order
    mainPc,     \* position of main()
    spawned,    \* iterations done of the spawn loop (lines 369-372)
    task,       \* per connectRetry goroutine, its position
    wg,         \* the WaitGroup counter
    closerPc,   \* the goroutine of lines 374-377: "none", "wait", "closed"
    curDev,     \* the task whose device main is setting up
    curServices, \* the services of that device still to be processed
    curChars,   \* the characteristics of the service at the head of
                \* curServices still to be processed
    failCap,    \* how many failed connects per task `failures` records
    failures,   \* history: per task, its failed connect attempts (counted
                \* up to failCap)
    handoffs,   \* history: the tasks whose device main received, in order
    scanPc,     \* position of scanDevices(): "none" when scan mode is off
    addrsChecked, \* scanDevices: the keys of the map addrsChecked
    reports,    \* history: the report lines scanDevices printed, in order
    scanLog,    \* history: the scan results the transport delivered
    mapLoaded,  \* MapContainer: the map's 'load' event has fired
    segments,   \* MapContainer.segments
    pendingReq, \* MapContainer.pendingReq: "null" or "pending"
    lastPoint,  \* MapContainer.lastPoint: "null", "undefined" or a point
    markers,    \* the markers on the map, by the number of their click
    reqSegment, \* the segment and point the pending promise chain holds
    clicks,     \* map 'click' events so far (a bound)
    settleLog   \* history: the promise chains that have ended, in order

decVars == <<decChar, decBuf, decPc, decOut>>
srcVars == <<src, sub, chanRecv, aborted, fatal, notifs, enableLog, emits, deliveries>>
mainVars == <<flagDeviceAddrs, mainPc, spawned, task, wg, closerPc, curDev,
              curServices, curChars, failCap, failures, handoffs>>
\* the connect-retry history, left alone by most steps
retryHist == <<failCap, failures, handoffs>>
scanVars == <<scanPc, addrsChecked, reports, scanLog>>
mapVars == <<mapLoaded, segments, pendingReq, lastPoint, markers, reqSegment, clicks,
             settleLog>>
vars == <<decVars, srcVars, mainVars, scanVars, mapVars>>

\* the empty function
NoSources == [x \in {} |-> 0]

SrcIdle ==
    /\ src = NoSources /\ sub = NoSources /\ chanRecv = NoSources
    /\ aborted = FALSE /\ fatal = "" /\ notifs = 0
    /\ enableLog = <<>> /\ emits = <<>> /\ deliveries = <<>>

MainIdle ==
    /\ flagDeviceAddrs = <<>> /\ mainPc = "none" /\ spawned = 0
    /\ task = <<>> /\ wg = 0 /\ closerPc = "none"
    /\ curDev = 0 /\ curServices = <<>> /\ curChars = <<>>
    /\ failCap = 0 /\ failures = <<>> /\ handoffs = <<>>

ScanIdle ==
    /\ scanPc = "none" /\ addrsChecked = {} /\ reports = <<>> /\ scanLog = <<>>

\* no segment and no request: the value of a segment record nobody reads
NoSegment == [id |-> 0, from |-> "null", to |-> "null"]

MapIdle ==
    /\ mapLoaded = FALSE /\ segments = <<>> /\ pendingReq = "null"
    /\ lastPoint = "null" /\ markers = {} /\ reqSegment = NoSegment
    /\ clicks = 0 /\ settleLog = <<>>

(***************************************************************************)
(* SpecDecode.                                                             *)
(***************************************************************************)
\* byte values drawn for the bytes after the first
ByteSamples == {0, 72, 80, 100, 255}

\* buf is one of the payloads of length n: any first byte, then sample bytes
IsPayloadOfLen(buf, n) ==
    IF n = 0 THEN buf = <<>>
    ELSE \E b0 \in Byte, rest \in [1..(n - 1) -> ByteSamples] : buf = <<b0>> \o rest

NoOutcome == Outcome(FALSE, <<>>, <<>>)

InitDecode ==
    /\ decChar \in {CharacteristicUUIDHeartRateMeasurement,
                    CharacteristicUUIDCyclingPowerMeasurement}
    /\ \E n \in 0..MaxLen : IsPayloadOfLen(decBuf, n)
    /\ decPc = "ready"
    /\ decOut = NoOutcome
    /\ SrcIdle
    /\ MainIdle
    /\ ScanIdle
    /\ MapIdle

DecodeHeartRate ==
    /\ decPc = "ready"
    /\ notificationHandler(decChar) = "handleHeartRateMeasurement"
    /\ decOut' = handleHeartRateMeasurement(decBuf)
    /\ decPc' = "done"
    /\ UNCHANGED <<decChar, decBuf, srcVars, mainVars, scanVars, mapVars>>

DecodeCyclingPower ==
    /\ decPc = "ready"
    /\ notificationHandler(decChar) = "handleCyclingPowerMeasurement"
    /\ decOut' = handleCyclingPowerMeasurement(decBuf)
    /\ decPc' = "done"
    /\ UNCHANGED <<decChar, decBuf, srcVars, mainVars, scanVars, mapVars>>

NextDecode == DecodeHeartRate \/ DecodeCyclingPower

SpecDecode == InitDecode /\ [][NextDecode]_vars

(***************************************************************************)
(* MetricSource: the steps of a source, its transport and its consumers.   *)
(* They are shared by SpecSource and Spec.                                 *)
(***************************************************************************)
\* payloads the transport delivers in the concurrent specifications: one
\* per outcome of each handler (heart rate: panic, drop, emit 72; cycling
\* power: panic, drop, emit 100)
NotifPayloads == {<<1, 72>>, <<4, 0, 0, 0>>, <<0, 72, 100, 0>>}

\* an AddSink that asks for the subscription whenever the source is not yet
\* subscribed, so that a failed subscription is tried again
AddSinkUpdateRetry(base, s, sink, ok) ==
    LET sinks1 == Append(base[s].sinks, sink)
        handler == notificationHandler(base[s].ch)
    IN  /\ src' = [base EXCEPT ![s].sinks = sinks1]
        /\ IF s \notin DOMAIN sub
           THEN /\ enableLog' = Append(enableLog,
                        [src |-> s, handler |-> handler, sinks |-> sinks1])
                /\ sub' = IF ok THEN (s :> handler) @@ sub ELSE sub
           ELSE UNCHANGED <<enableLog, sub>>

\* MetricSource.AddSink(sink) on source s, as an update of src, sub and
\* enableLog.  EnableNotifications returns an error that AddSink ignores:
\* `ok` is whether the transport installed the subscription.
\* `base` is the value of src when AddSink is called (in main, this is src
\* with the source that line 410 just constructed).
AddSinkUpdate(base, s, sink, ok) ==
    LET sinks1 == Append(base[s].sinks, sink)
        handler == notificationHandler(base[s].ch)
    IN  /\ src' = [base EXCEPT ![s].sinks = sinks1]
        /\ IF ShouldSubscribe(sinks1)
           THEN /\ enableLog' = Append(enableLog,
                        [src |-> s, handler |-> handler, sinks |-> sinks1])
                /\ sub' = IF ok THEN (s :> handler) @@ sub ELSE sub
           ELSE UNCHANGED <<enableLog, sub>>

\* a transport that calls the handler of s again while its earlier call is
\* still inside emit: the new call takes over the source's frame
NotifyReentrant(s, buf) ==
    /\ ~aborted
    /\ s \in DOMAIN sub
    /\ notifs > 0
    /\ notifs' = notifs - 1
    /\ LET out == CallHandler(sub[s], buf)
       IN  IF out.panics
           THEN /\ aborted' = TRUE /\ fatal' = "handler"
                /\ src' = [src EXCEPT ![s].ndecoded = @ + 1]
                /\ UNCHANGED emits
           ELSE IF out.emits = <<>>
           THEN /\ src' = [src EXCEPT ![s].ndecoded = @ + 1]
                /\ UNCHANGED <<aborted, fatal, emits>>
           ELSE /\ src' = [src EXCEPT ![s] =
                        [@ EXCEPT !.ndecoded = @ + 1, !.hpc = "emit",
                                  !.hm = out.emits[1], !.hsnap = src[s].sinks,
                                  !.hi = 1, !.hemit = Len(emits) + 1]]
                /\ emits' = Append(emits,
                        [src |-> s, m |-> out.emits[1], at |-> src[s].sinks,
                         ord |-> src[s].ndecoded + 1, done |-> FALSE])
                /\ UNCHANGED <<aborted, fatal>>
    /\ UNCHANGED <<sub, chanRecv, enableLog, deliveries>>

\* The transport delivers one notification to the handler of s, which runs
\* up to its emit call: it returns, panics, or enters emit (lines 120-121).
\* The transport calls the handler of one characteristic sequentially.
Notify(s, buf) ==
    /\ ~aborted
    /\ s \in DOMAIN sub
    /\ src[s].hpc = "idle"
    /\ notifs > 0
    /\ notifs' = notifs - 1
    /\ LET out == CallHandler(sub[s], buf)
       IN  IF out.panics
           THEN /\ aborted' = TRUE /\ fatal' = "handler"
                /\ src' = [src EXCEPT ![s].ndecoded = @ + 1]
                /\ UNCHANGED emits
           ELSE IF out.emits = <<>>
           THEN /\ src' = [src EXCEPT ![s].ndecoded = @ + 1]
                /\ UNCHANGED <<aborted, fatal, emits>>
           ELSE /\ src' = [src EXCEPT ![s] =
                        [@ EXCEPT !.ndecoded = @ + 1, !.hpc = "emit",
                                  !.hm = out.emits[1], !.hsnap = src[s].sinks,
                                  !.hi = 1, !.hemit = Len(emits) + 1]]
                /\ emits' = Append(emits,
                        [src |-> s, m |-> out.emits[1], at |-> src[s].sinks,
                         ord |-> src[s].ndecoded + 1, done |-> FALSE])
                /\ UNCHANGED <<aborted, fatal>>
    /\ UNCHANGED <<sub, chanRecv, enableLog, deliveries>>

\* an emit that skips a sink whose consumer is not ready
\* (select { case sink <- m: default: })
EmitSendOrSkip(s) ==
    /\ ~aborted
    /\ s \in DOMAIN src
    /\ src[s].hpc = "emit"
    /\ src[s].hi <= Len(EmitTargets(src[s]))
    /\ LET c == EmitTargets(src[s])[src[s].hi]
       IN  IF chanRecv[c] = "recv"
           THEN /\ chanRecv' = [chanRecv EXCEPT ![c] = "got"]
                /\ deliveries' = Append(deliveries,
                        [chan |-> c, emit |-> src[s].hemit, m |-> src[s].hm])
           ELSE UNCHANGED <<chanRecv, deliveries>>
    /\ src' = [src EXCEPT ![s].hi = @ + 1]
    /\ UNCHANGED <<sub, aborted, fatal, notifs, enableLog, emits>>

\* emit line 122, `sink <- m` on an unbuffered channel: the send completes
\* together with the receive of the channel's consumer (main.go 381)
EmitSend(s) ==
    /\ ~aborted
    /\ s \in DOMAIN src
    /\ src[s].hpc = "emit"
    /\ src[s].hi <= Len(EmitTargets(src[s]))
    /\ LET c == EmitTargets(src[s])[src[s].hi]
       IN  /\ chanRecv[c] = "recv"
           /\ chanRecv' = [chanRecv EXCEPT ![c] = "got"]
           /\ deliveries' = Append(deliveries,
                   [chan |-> c, emit |-> src[s].hemit, m |-> src[s].hm])
    /\ src' = [src EXCEPT ![s].hi = @ + 1]
    /\ UNCHANGED <<sub, aborted, fatal, notifs, enableLog, emits>>

\* an emit that returns without waiting for its sends (each send started
\* with `go`, or dropped)
HandlerReturnEarly(s) ==
    /\ ~aborted
    /\ s \in DOMAIN src
    /\ src[s].hpc = "emit"
    /\ src' = [src EXCEPT ![s].hpc = "idle"]
    /\ emits' = [emits EXCEPT ![src[s].hemit].done = TRUE]
    /\ UNCHANGED <<sub, chanRecv, aborted, fatal, notifs, enableLog, deliveries>>

\* the range loop is exhausted: emit returns and the handler runs to its
\* end (for cycling power, the offset computation of lines 228-250)
HandlerReturn(s) ==
    /\ ~aborted
    /\ s \in DOMAIN src
    /\ src[s].hpc = "emit"
    /\ src[s].hi > Len(EmitTargets(src[s]))
    /\ src' = [src EXCEPT ![s].hpc = "idle"]
    /\ emits' = [emits EXCEPT ![src[s].hemit].done = TRUE]
    /\ UNCHANGED <<sub, chanRecv, aborted, fatal, notifs, enableLog, deliveries>>

\* the consumer of channel c prints the metric it received and goes back
\* to the receive (main.go 381-383)
Consume(c) ==
    /\ ~aborted
    /\ c \in DOMAIN chanRecv
    /\ chanRecv[c] = "got"
    /\ chanRecv' = [chanRecv EXCEPT ![c] = "recv"]
    /\ UNCHANGED <<src, sub, aborted, fatal, notifs, enableLog, emits, deliveries>>

(***************************************************************************)
(* SpecSource: one MetricSource, a client that registers sinks drawn from  *)
(* two channels (the same channel may be registered twice), the transport, *)
(* and a consumer on each channel.                                         *)
(***************************************************************************)
SinkChans == {"sinkA", "sinkB"}

SourceChars == {CharacteristicUUIDHeartRateMeasurement,
                CharacteristicUUIDCyclingPowerMeasurement}

\* the id of the one source of SpecSource
TheSource == <<0, "src">>

DecIdle ==
    /\ decChar = CharacteristicUUIDHeartRateMeasurement
    /\ decBuf = <<>> /\ decPc = "done" /\ decOut = NoOutcome

InitSource ==
    /\ DecIdle
    /\ MapIdle
    /\ MainIdle
    /\ ScanIdle
    /\ \E ch \in SourceChars : src = (TheSource :> NewMetricSource(ch))
    /\ sub = NoSources
    /\ chanRecv = [c \in SinkChans |-> "recv"]
    /\ aborted = FALSE /\ fatal = "" /\ notifs = MaxNotifs
    /\ enableLog = <<>> /\ emits = <<>> /\ deliveries = <<>>

\* the client calls src.AddSink(sink)
ClientAddSink ==
    /\ ~aborted
    /\ Len(src[TheSource].sinks) < MaxSinks
    /\ \E sink \in SinkChans, ok \in BOOLEAN : AddSinkUpdate(src, TheSource, sink, ok)
    /\ UNCHANGED <<chanRecv, aborted, fatal, notifs, emits, deliveries, decVars, mainVars,
                   scanVars, mapVars>>

SourceNotify ==
    /\ \E buf \in NotifPayloads : Notify(TheSource, buf)
    /\ UNCHANGED <<decVars, mainVars, scanVars, mapVars>>

SourceEmitSend == EmitSend(TheSource) /\ UNCHANGED <<decVars, mainVars, scanVars, mapVars>>

SourceHandlerReturn == HandlerReturn(TheSource) /\ UNCHANGED <<decVars, mainVars,
                                                               scanVars, mapVars>>

SourceConsume ==
    /\ \E c \in SinkChans : Consume(c)
    /\ UNCHANGED <<decVars, mainVars, scanVars, mapVars>>

NextSource ==
    \/ ClientAddSink
    \/ SourceNotify
    \/ SourceEmitSend
    \/ SourceHandlerReturn
    \/ SourceConsume

SpecSource == InitSource /\ [][NextSource]_vars

(***************************************************************************)
(* Spec: main() in connect mode (main.go 325-418).                         *)
(***************************************************************************)
\* -device arguments: addresses that parse and one that does not
Addrs == {"a1", "a2"}
BadAddr == "not-a-uuid"

\* bluetooth.ParseUUID(addr) succeeds
ParsesAsUUID(addr) == addr \in Addrs

\* the -device argument lists main is run with: none, one or two targets,
\* a repeated target, and targets that do not parse (the two good addresses
\* are interchangeable, so lists that differ only by swapping them are
\* given once)
TargetLists ==
    {<<>>, <<"a1">>, <<BadAddr>>, <<"a1", "a2">>, <<"a1", "a1">>,
     <<"a1", BadAddr>>, <<BadAddr, "a1">>}

\* the services a device can answer DiscoverServices(KnownServiceUUIDs)
\* with, in known-service order: a device with none of them, a heart-rate
\* strap, a power meter with speed and cadence, and a device with all three
ServiceProfiles ==
    {<<>>, <<ServiceUUIDHeartRate>>,
     <<ServiceUUIDCyclingSpeedAndCadence, ServiceUUIDCyclingPower>>,
     KnownServiceUUIDs}

\* the answers service.DiscoverCharacteristics(knownChars) can give when it
\* succeeds.  With a filter the library returns the requested
\* characteristics, in the filter's order.  The speed-and-cadence service
\* has no entry in KnownServiceCharacteristicUUIDs, and with the nil filter
\* the library returns every characteristic the device has in the service:
\* the two that are mandatory there, or none on a device whose service is
\* empty.
CharacteristicsOffered(svc) ==
    IF KnownServiceCharacteristicUUIDs(svc) # <<>>
    THEN {KnownServiceCharacteristicUUIDs(svc)}
    ELSE {<<>>, <<CharacteristicUUIDCSCMeasurement, CharacteristicUUIDCSCFeature>>}

MetricsChan == "metricsChan"

\* lines 394-398: the service name printed during session setup; the
\* two-value map read tells a missing key from an empty name
SessionServiceName(svc) ==
    IF svc \in {ServiceUUIDCyclingPower, ServiceUUIDHeartRate}
    THEN KnownServiceNames(svc)
    ELSE "unknown <" \o svc \o ">"

\* the state at the entry of main(), scan mode off, given the arguments,
\* the number of notifications the transport will deliver and the number
\* of failed connects recorded per task
InitMain(targets, n, cap) ==
    /\ DecIdle
    /\ MapIdle
    /\ ScanIdle
    /\ src = NoSources /\ sub = NoSources /\ chanRecv = NoSources
    /\ aborted = FALSE /\ fatal = "" /\ notifs = n
    /\ enableLog = <<>> /\ emits = <<>> /\ deliveries = <<>>
    /\ flagDeviceAddrs \in targets
    /\ mainPc = "enable"
    /\ spawned = 0
    /\ task = [i \in 1..Len(flagDeviceAddrs) |-> "none"]
    /\ failCap = cap
    /\ failures = [i \in 1..Len(flagDeviceAddrs) |-> 0]
    /\ handoffs = <<>>
    /\ wg = 0
    /\ closerPc = "none"
    /\ curDev = 0 /\ curServices = <<>> /\ curChars = <<>>

\* a main that reports the failure of adapter.Enable and carries on
MainEnableIgnoreError ==
    /\ ~aborted /\ mainPc = "enable"
    /\ mainPc' = "spawn"
    /\ \E ok \in BOOLEAN :
          fatal' = IF ok THEN fatal ELSE "adapter.Enable"
    /\ UNCHANGED <<decVars, scanVars, mapVars, src, sub, chanRecv, aborted, notifs, enableLog,
                   emits, deliveries, retryHist, flagDeviceAddrs, spawned, task, wg,
                   closerPc, curDev, curServices, curChars>>

\* lines 331-335: adapter.Enable(), fatal on error
MainEnable ==
    /\ ~aborted /\ mainPc = "enable"
    /\ \E ok \in BOOLEAN :
          IF ok THEN mainPc' = "spawn" /\ UNCHANGED <<aborted, fatal>>
          ELSE aborted' = TRUE /\ fatal' = "adapter.Enable" /\ UNCHANGED mainPc
    /\ UNCHANGED <<decVars, scanVars, mapVars, src, sub, chanRecv, notifs, enableLog, emits,
                   deliveries,
                   retryHist, flagDeviceAddrs, spawned, task, wg, closerPc, curDev,
                   curServices, curChars>>

\* lines 369-372, one iteration: wg.Add(1); go connectRetry(addr)
MainSpawn ==
    /\ ~aborted /\ mainPc = "spawn"
    /\ spawned < Len(flagDeviceAddrs)
    /\ wg' = wg + 1
    /\ task' = [task EXCEPT ![spawned + 1] = "parse"]
    /\ spawned' = spawned + 1
    /\ UNCHANGED <<decVars, scanVars, mapVars, srcVars, retryHist, flagDeviceAddrs, mainPc,
                   closerPc, curDev,
                   curServices, curChars>>

\* lines 374-384: start the goroutine that closes deviceChan and the
\* consumer of metricsChan, and enter the device loop
MainStartWorkers ==
    /\ ~aborted /\ mainPc = "spawn"
    /\ spawned = Len(flagDeviceAddrs)
    /\ closerPc' = "wait"
    /\ chanRecv' = (MetricsChan :> "recv")
    /\ mainPc' = "devices"
    /\ UNCHANGED <<decVars, scanVars, mapVars, src, sub, aborted, fatal, notifs, enableLog, emits,
                   deliveries,
                   retryHist, flagDeviceAddrs, spawned, task, wg, curDev, curServices, curChars>>

\* a connectRetry that reports a bad address and goes on to connect
TaskParseLenient(i) ==
    /\ ~aborted /\ task[i] = "parse"
    /\ task' = [task EXCEPT ![i] = "connect"]
    /\ UNCHANGED <<decVars, scanVars, mapVars, srcVars, retryHist, flagDeviceAddrs, mainPc,
                   spawned, wg, closerPc, curDev, curServices, curChars>>

\* lines 342-351: connectRetry parses its address, fatal on error
TaskParse(i) ==
    /\ ~aborted /\ task[i] = "parse"
    /\ IF ParsesAsUUID(flagDeviceAddrs[i])
       THEN task' = [task EXCEPT ![i] = "connect"] /\ UNCHANGED <<aborted, fatal>>
       ELSE aborted' = TRUE /\ fatal' = "ParseUUID" /\ UNCHANGED task
    /\ UNCHANGED <<decVars, scanVars, mapVars, src, sub, chanRecv, notifs, enableLog, emits,
                   deliveries,
                   retryHist, flagDeviceAddrs, mainPc, spawned, wg, closerPc, curDev,
                   curServices, curChars>>

\* a retry loop in which a failed connect is fatal
TaskConnectFatal(i) ==
    /\ ~aborted /\ task[i] = "connect"
    /\ \E ok \in BOOLEAN :
          IF ok
          THEN /\ task' = [task EXCEPT ![i] = "send"]
               /\ UNCHANGED <<failures, aborted, fatal>>
          ELSE /\ aborted' = TRUE /\ fatal' = "adapter.Connect"
               /\ failures' = [failures EXCEPT ![i] = IF @ < failCap THEN @ + 1 ELSE @]
               /\ UNCHANGED task
    /\ UNCHANGED <<decVars, scanVars, mapVars, src, sub, chanRecv, notifs, enableLog, emits,
                   deliveries, flagDeviceAddrs, mainPc, spawned, wg,
                   closerPc, curDev, curServices, curChars, failCap, handoffs>>

\* lines 353-361, one iteration: adapter.Connect fails (continue) or
\* succeeds (go on to the send)
TaskConnect(i) ==
    /\ ~aborted /\ task[i] = "connect"
    /\ \E ok \in BOOLEAN :
          IF ok
          THEN /\ task' = [task EXCEPT ![i] = "send"]
               /\ UNCHANGED failures
          ELSE /\ task' = [task EXCEPT ![i] = "connect"]
               /\ failures' = [failures EXCEPT ![i] = IF @ < failCap THEN @ + 1 ELSE @]
    /\ UNCHANGED <<decVars, scanVars, mapVars, srcVars, flagDeviceAddrs, mainPc, spawned, wg,
                   closerPc, curDev, curServices, curChars, failCap, handoffs>>

\* line 362 with line 386: `deviceChan <- device` completes together with
\* the receive of main's range loop
MainRecvDevice(i) ==
    /\ ~aborted /\ mainPc = "devices"
    /\ task[i] = "send"
    /\ task' = [task EXCEPT ![i] = "sent"]
    /\ curDev' = i
    /\ mainPc' = "services"
    /\ handoffs' = Append(handoffs, i)
    /\ UNCHANGED <<decVars, scanVars, mapVars, srcVars, flagDeviceAddrs, spawned, wg, closerPc,
                   curServices, curChars, failCap, failures>>

\* a retry loop without the break of line 363: after the send it connects
\* again
TaskDoneNoBreak(i) ==
    /\ ~aborted /\ task[i] = "sent"
    /\ task' = [task EXCEPT ![i] = "connect"]
    /\ UNCHANGED <<decVars, scanVars, mapVars, srcVars, retryHist, flagDeviceAddrs, mainPc,
                   spawned, wg, closerPc, curDev, curServices, curChars>>

\* lines 363-366: break; wg.Done()
TaskDone(i) ==
    /\ ~aborted /\ task[i] = "sent"
    /\ task' = [task EXCEPT ![i] = "done"]
    /\ wg' = wg - 1
    /\ UNCHANGED <<decVars, scanVars, mapVars, srcVars, retryHist, flagDeviceAddrs, mainPc,
                   spawned, closerPc,
                   curDev, curServices, curChars>>

\* a closer that does not wait for the tasks
CloserCloseNoWait ==
    /\ ~aborted /\ closerPc = "wait"
    /\ closerPc' = "closed"
    /\ UNCHANGED <<decVars, scanVars, mapVars, srcVars, retryHist, flagDeviceAddrs, mainPc,
                   spawned, task, wg, curDev, curServices, curChars>>

\* lines 375-376: wg.Wait() returns when the counter is zero; close(deviceChan)
CloserClose ==
    /\ ~aborted /\ closerPc = "wait"
    /\ wg = 0
    /\ closerPc' = "closed"
    /\ UNCHANGED <<decVars, scanVars, mapVars, srcVars, retryHist, flagDeviceAddrs, mainPc,
                   spawned, task, wg,
                   curDev, curServices, curChars>>

\* a main that returns when the range loop ends, which ends the process
MainRangeEndReturn ==
    /\ ~aborted /\ mainPc = "devices"
    /\ closerPc = "closed"
    /\ mainPc' = "returned"
    /\ UNCHANGED <<decVars, scanVars, mapVars, srcVars, retryHist, flagDeviceAddrs, spawned,
                   task, wg, closerPc,
                   curDev, curServices, curChars>>

\* lines 386, 416-417: the range loop ends on the closed channel; select {}
MainRangeEnd ==
    /\ ~aborted /\ mainPc = "devices"
    /\ closerPc = "closed"
    /\ mainPc' = "blocked"
    /\ UNCHANGED <<decVars, scanVars, mapVars, srcVars, retryHist, flagDeviceAddrs, spawned,
                   task, wg, closerPc,
                   curDev, curServices, curChars>>

\* lines 387-391: device.DiscoverServices(KnownServiceUUIDs), fatal on
\* error, for a device that has one of the given service profiles
DiscoverServices(profiles) ==
    /\ ~aborted /\ mainPc = "services"
    /\ \/ /\ aborted' = TRUE /\ fatal' = "DiscoverServices"
          /\ UNCHANGED <<mainPc, curServices, curChars>>
       \/ \E services \in profiles :
             /\ curServices' = services
             /\ mainPc' = IF services = <<>> THEN "devices" ELSE "service"
             /\ UNCHANGED <<aborted, fatal, curChars>>
    /\ UNCHANGED <<decVars, scanVars, mapVars, src, sub, chanRecv, notifs, enableLog, emits,
                   deliveries,
                   retryHist, flagDeviceAddrs, spawned, task, wg, closerPc, curDev>>

MainDiscoverServices == DiscoverServices(ServiceProfiles)

\* lines 393-405, the head of one iteration of the service loop, for the
\* service at the head of curServices: print its name, look up its known
\* characteristics, service.DiscoverCharacteristics (fatal on error).  An
\* answer without characteristics ends the iteration.
MainSetupService ==
    /\ ~aborted /\ mainPc = "service"
    /\ \/ /\ aborted' = TRUE /\ fatal' = "DiscoverCharacteristics"
          /\ UNCHANGED <<mainPc, curServices, curChars>>
       \/ \E chars \in CharacteristicsOffered(Head(curServices)) :
             /\ curChars' = chars
             /\ IF chars # <<>>
                THEN mainPc' = "characteristic" /\ UNCHANGED curServices
                ELSE /\ curServices' = Tail(curServices)
                     /\ mainPc' = IF Tail(curServices) = <<>> THEN "devices" ELSE "service"
             /\ UNCHANGED <<aborted, fatal>>
    /\ UNCHANGED <<decVars, scanVars, mapVars, src, sub, chanRecv, notifs, enableLog, emits,
                   deliveries, retryHist, flagDeviceAddrs, spawned, task, wg, closerPc,
                   curDev>>

\* a characteristic loop that handles each characteristic twice, the second
\* time calling AddSink(metricsChan) on the source it has already created
MainSetupCharacteristicTwice ==
    /\ ~aborted /\ mainPc = "characteristic"
    /\ LET ch == Head(curChars)
           s == <<curDev, ch>>
           again == s \in DOMAIN src
           last == again /\ Tail(curChars) = <<>>
       IN  /\ \E ok \in BOOLEAN :
                 AddSinkUpdate(IF again THEN src ELSE (s :> NewMetricSource(ch)) @@ src,
                               s, MetricsChan, ok)
           /\ curChars' = IF again THEN Tail(curChars) ELSE curChars
           /\ curServices' = IF last THEN Tail(curServices) ELSE curServices
           /\ mainPc' = IF ~last THEN "characteristic"
                        ELSE IF Tail(curServices) = <<>> THEN "devices" ELSE "service"
    /\ UNCHANGED <<decVars, scanVars, mapVars, chanRecv, aborted, fatal, notifs, emits,
                   deliveries, retryHist, flagDeviceAddrs, spawned, task, wg, closerPc,
                   curDev>>

\* lines 406-412, one iteration of the characteristic loop, for the
\* characteristic at the head of curChars: NewMetricSource and
\* AddSink(metricsChan), which returns when EnableNotifications has; after
\* the last characteristic the service loop goes on (line 393)
MainSetupCharacteristic ==
    /\ ~aborted /\ mainPc = "characteristic"
    /\ LET ch == Head(curChars)
           s == <<curDev, ch>>
           last == Tail(curChars) = <<>>
       IN  /\ \E ok \in BOOLEAN :
                 AddSinkUpdate((s :> NewMetricSource(ch)) @@ src, s, MetricsChan, ok)
           /\ curChars' = Tail(curChars)
           /\ curServices' = IF last THEN Tail(curServices) ELSE curServices
           /\ mainPc' = IF ~last THEN "characteristic"
                        ELSE IF Tail(curServices) = <<>> THEN "devices" ELSE "service"
    /\ UNCHANGED <<decVars, scanVars, mapVars, chanRecv, aborted, fatal, notifs, emits,
                   deliveries, retryHist, flagDeviceAddrs, spawned, task, wg, closerPc,
                   curDev>>

\* the indices of the tasks main can start
TaskIds == UNION {DOMAIN l : l \in TargetLists}

\* every source main can construct
SourceIds ==
    TaskIds \X {CharacteristicUUIDCSCMeasurement,
                      CharacteristicUUIDCSCFeature,
                      CharacteristicUUIDCyclingPowerMeasurement,
                      CharacteristicUUIDHeartRateMeasurement}

MainNotify(s) ==
    /\ \E buf \in NotifPayloads : Notify(s, buf)
    /\ UNCHANGED <<decVars, mainVars, scanVars, mapVars>>

MainEmitSend(s) == EmitSend(s) /\ UNCHANGED <<decVars, mainVars, scanVars, mapVars>>

MainHandlerReturn(s) == HandlerReturn(s) /\ UNCHANGED <<decVars, mainVars, scanVars, mapVars>>

\* lines 380-384: the consumer of metricsChan
MainConsume == Consume(MetricsChan) /\ UNCHANGED <<decVars, mainVars, scanVars, mapVars>>

Next ==
    \/ MainEnable
    \/ MainSpawn
    \/ MainStartWorkers
    \/ \E i \in DOMAIN task : TaskParse(i)
    \/ \E i \in DOMAIN task : TaskConnect(i)
    \/ \E i \in DOMAIN task : MainRecvDevice(i)
    \/ \E i \in DOMAIN task : TaskDone(i)
    \/ CloserClose
    \/ MainRangeEnd
    \/ MainDiscoverServices
    \/ MainSetupService
    \/ MainSetupCharacteristic
    \/ \E s \in SourceIds : MainNotify(s)
    \/ \E s \in SourceIds : MainEmitSend(s)
    \/ \E s \in SourceIds : MainHandlerReturn(s)
    \/ MainConsume

Init == InitMain(TargetLists, MaxMainNotifs, 0)

Spec == Init /\ [][Next]_vars

(***************************************************************************)
(* SpecFlow: main() in connect mode with one target, more notifications,   *)
(* and the fairness of the Go scheduler and of channel operations.         *)
(***************************************************************************)
InitFlow == InitMain({<<"a1">>}, MaxFlowNotifs, 0)

\* the sources of SpecFlow that can emit: those of its one task whose
\* characteristic has a handler
FlowSourceIds == {s \in SourceIds : s[1] = 1 /\ notificationHandler(s[2]) # "nil"}

\* Every runnable goroutine is eventually scheduled: the consumer's print
\* and a handler's return are weakly fair.  A send blocked on metricsChan
\* waits in the channel's FIFO queue of senders, so it completes if the
\* consumer keeps coming back to its receive: strongly fair.
FlowFairness ==
    /\ WF_vars(MainConsume)
    /\ \A s \in FlowSourceIds : WF_vars(MainHandlerReturn(s))
    /\ \A s \in FlowSourceIds : SF_vars(MainEmitSend(s))

SpecFlow == InitFlow /\ [][Next]_vars /\ FlowFairness

(***************************************************************************)
(* SpecRetry: main() in connect mode with one or two targets that parse,   *)
(* the failed connects of each task recorded, and the fairness of the Go   *)
(* scheduler and of channel operations.  adapter.Connect is not fair: it   *)
(* may fail every time.                                                    *)
(***************************************************************************)
RetryTargets == {<<>>, <<"a1">>, <<"a1", "a2">>}

\* the devices of SpecRetry: one with no known service, a heart-rate strap,
\* and a speed-and-cadence sensor
RetryProfiles ==
    {<<>>, <<ServiceUUIDHeartRate>>, <<ServiceUUIDCyclingSpeedAndCadence>>}

InitRetry == InitMain(RetryTargets, MaxRetryNotifs, MaxFailures)

RetryDiscoverServices == DiscoverServices(RetryProfiles)

NextRetry ==
    \/ MainEnable
    \/ MainSpawn
    \/ MainStartWorkers
    \/ \E i \in DOMAIN task : TaskParse(i)
    \/ \E i \in DOMAIN task : TaskConnect(i)
    \/ \E i \in DOMAIN task : MainRecvDevice(i)
    \/ \E i \in DOMAIN task : TaskDone(i)
    \/ CloserClose
    \/ MainRangeEnd
    \/ RetryDiscoverServices
    \/ MainSetupService
    \/ MainSetupCharacteristic
    \/ \E s \in SourceIds : MainNotify(s)
    \/ \E s \in SourceIds : MainEmitSend(s)
    \/ \E s \in SourceIds : MainHandlerReturn(s)
    \/ MainConsume

\* main is eventually scheduled, in its spawn loop and in its device loop;
\* a send blocked on deviceChan waits in the channel's FIFO queue of
\* senders, so it completes if main keeps coming back to its receive:
\* strongly fair.
RetryFairness ==
    /\ WF_vars(MainSpawn)
    /\ WF_vars(MainStartWorkers)
    /\ WF_vars(RetryDiscoverServices)
    /\ WF_vars(MainSetupService)
    /\ WF_vars(MainSetupCharacteristic)
    /\ \A i \in TaskIds : SF_vars(i \in DOMAIN task /\ MainRecvDevice(i))

SpecRetry == InitRetry /\ [][NextRetry]_vars /\ RetryFairness

(***************************************************************************)
(* SpecScan: scanDevices() (main.go 254-300), scan mode on.                *)
(***************************************************************************)
\* a service identifier that is not in KnownServiceUUIDs (the fitness
\* machine service of the comment at lines 18-19)
ServiceUUIDFitnessMachine == "FitnessMachine"

ScanAddrs == {"d1", "d2"}

\* the sets of service identifiers an advertisement carries
AdvertisedSets ==
    {{}, {ServiceUUIDFitnessMachine}, {ServiceUUIDHeartRate},
     {ServiceUUIDCyclingSpeedAndCadence},
     {ServiceUUIDCyclingPower, ServiceUUIDHeartRate},
     {ServiceUUIDCyclingSpeedAndCadence, ServiceUUIDCyclingPower, ServiceUUIDHeartRate},
     {ServiceUUIDHeartRate, ServiceUUIDFitnessMachine}}

\* bluetooth.ScanResult: the address, the advertised local name and
\* services, and the signal strength; one device may advertise different
\* payloads from one result to the next
ScanResults ==
    {[addr |-> a, name |-> nr[1], services |-> adv, rssi |-> nr[2]] :
        a \in ScanAddrs, adv \in AdvertisedSets, nr \in {<<"", -90>>, <<"kickr", -40>>}}

\* result.HasServiceUUID(s)
HasServiceUUID(result, s) == s \in result.services

\* lines 272-279: the names appended while ranging over KnownServiceUUIDs
ServiceNamesOf(result) ==
    LET names[k \in 0..Len(KnownServiceUUIDs)] ==
            IF k = 0 THEN <<>>
            ELSE IF HasServiceUUID(result, KnownServiceUUIDs[k])
                 THEN Append(names[k - 1], KnownServiceNames(KnownServiceUUIDs[k]))
                 ELSE names[k - 1]
    IN  names[Len(KnownServiceUUIDs)]

\* a scan that never treats an address as seen
SeenNever(checked, addr) == FALSE

\* line 267: _, seen := addrsChecked[addr]
Seen(checked, addr) == addr \in checked

InitScan ==
    /\ DecIdle
    /\ MapIdle
    /\ SrcIdle
    /\ MainIdle
    /\ scanPc = "enable"
    /\ addrsChecked = {}
    /\ reports = <<>>
    /\ scanLog = <<>>

\* lines 258-261: adapter.Enable(), fatal on error
ScanEnable ==
    /\ ~aborted /\ scanPc = "enable"
    /\ \E ok \in BOOLEAN :
          IF ok THEN scanPc' = "scan" /\ UNCHANGED <<aborted, fatal>>
          ELSE aborted' = TRUE /\ fatal' = "adapter.Enable" /\ UNCHANGED scanPc
    /\ UNCHANGED <<decVars, mainVars, mapVars, src, sub, chanRecv, notifs, enableLog, emits,
                   deliveries, addrsChecked, reports, scanLog>>

\* line 294: adapter.Scan(onScanResult) starts listening
ScanStart ==
    /\ ~aborted /\ scanPc = "scan"
    /\ scanPc' = "scanning"
    /\ UNCHANGED <<decVars, mainVars, mapVars, srcVars, addrsChecked, reports, scanLog>>

\* lines 294-297: adapter.Scan returns an error (at its start or later),
\* fatal
ScanError ==
    /\ ~aborted /\ scanPc \in {"scan", "scanning"}
    /\ aborted' = TRUE /\ fatal' = "adapter.Scan"
    /\ UNCHANGED <<decVars, mainVars, src, sub, chanRecv, notifs, enableLog, emits,
                   deliveries, scanVars, mapVars>>

\* a callback that stops the scan once it has handled a result, so that
\* adapter.Scan returns and scanDevices ends
OnScanResultStop(result) ==
    /\ ~aborted /\ scanPc = "scanning"
    /\ Len(scanLog) < MaxScanResults
    /\ scanLog' = Append(scanLog, result)
    /\ scanPc' = "complete"
    /\ IF Seen(addrsChecked, result.addr)
       THEN UNCHANGED <<addrsChecked, reports>>
       ELSE /\ addrsChecked' = addrsChecked \cup {result.addr}
            /\ LET serviceNames == ServiceNamesOf(result)
               IN  IF Len(serviceNames) = 0
                   THEN UNCHANGED reports
                   ELSE reports' = Append(reports,
                            [addr |-> result.addr, name |-> result.name,
                             services |-> serviceNames, rssi |-> result.rssi,
                             of |-> Len(scanLog) + 1])
    /\ UNCHANGED <<decVars, mainVars, mapVars, srcVars>>

\* lines 266-292: the transport calls onScanResult(adapter, result); the
\* callbacks of one scan run one at a time
OnScanResult(result) ==
    /\ ~aborted /\ scanPc = "scanning"
    /\ Len(scanLog) < MaxScanResults
    /\ scanLog' = Append(scanLog, result)
    /\ IF Seen(addrsChecked, result.addr)
       THEN UNCHANGED <<addrsChecked, reports>>
       ELSE /\ addrsChecked' = addrsChecked \cup {result.addr}
            /\ LET serviceNames == ServiceNamesOf(result)
               IN  IF Len(serviceNames) = 0
                   THEN UNCHANGED reports
                   ELSE reports' = Append(reports,
                            [addr |-> result.addr, name |-> result.name,
                             services |-> serviceNames, rssi |-> result.rssi,
                             of |-> Len(scanLog) + 1])
    /\ UNCHANGED <<decVars, mainVars, mapVars, srcVars, scanPc>>

ScanDeliver == \E result \in ScanResults : OnScanResult(result)

NextScan ==
    \/ ScanEnable
    \/ ScanStart
    \/ ScanError
    \/ ScanDeliver

SpecScan == InitScan /\ [][NextScan]_vars

(***************************************************************************)
(* SpecProgram: main() as a whole (main.go 325-418): scan mode when the    *)
(* -scan flag is given, connect mode otherwise.                            *)
(***************************************************************************)
\* the -scan flag: scanDevices() is entered only when it is set
flagScanMode == scanPc # "none"

\* the -device arguments given together with -scan
ScanTargets == {<<>>, <<"a1">>}

\* the state at the entry of main() with -scan: as InitScan, with the
\* -device arguments that main will not look at
InitScanGiven(targets) ==
    /\ DecIdle
    /\ MapIdle
    /\ SrcIdle
    /\ flagDeviceAddrs \in targets
    /\ mainPc = "none" /\ spawned = 0
    /\ task = [i \in 1..Len(flagDeviceAddrs) |-> "none"]
    /\ wg = 0 /\ closerPc = "none"
    /\ curDev = 0 /\ curServices = <<>> /\ curChars = <<>>
    /\ failCap = 0 /\ failures = [i \in 1..Len(flagDeviceAddrs) |-> 0]
    /\ handoffs = <<>>
    /\ scanPc = "enable"
    /\ addrsChecked = {}
    /\ reports = <<>>
    /\ scanLog = <<>>

\* lines 318-322: flag.Parse() has set flagScanMode and flagDeviceAddrs
InitProgram ==
    \/ InitScanGiven(ScanTargets)
    \/ InitMain(TargetLists, MaxMainNotifs, 0)

NextProgram == NextScan \/ NextRetry

SpecProgram == InitProgram /\ [][NextProgram]_vars

(***************************************************************************)
(* SpecMap: MapContainer (src/web/js/main.js).  The browser runs one event *)
(* handler at a time, each with the promise callbacks it makes runnable.   *)
(***************************************************************************)
\* most map 'click' events in one behaviour
MaxClicks == 4

\* where the user clicks, and a point on a road that is none of them
ClickPoints == {"A", "B"}
SnapPoint == "S"

\* the geometry of a route the server answers with, for a request from
\* `from` to `to`: it ends at the clicked point or at a point snapped to a
\* road, or it has no point at all (only its last point is read, so longer
\* geometries behave as the two-point ones)
RouteGeometries(from, to) == {<<>>, <<from, to>>, <<from, SnapPoint>>}

\* line 141: res.geometry[res.geometry.length - 1], which is undefined for
\* an empty array
LastOf(geometry) ==
    IF geometry = <<>> THEN "undefined" ELSE geometry[Len(geometry)]

\* what `res` is in the callback of line 133, or how the chain fails before
\* it: null, a route, or an error (fetch rejected, a body that is not JSON,
\* a JSON value without a geometry)
Responses(from, to) ==
    {[kind |-> "null", geometry |-> <<>>], [kind |-> "error", geometry |-> <<>>]}
        \cup {[kind |-> "route", geometry |-> g] : g \in RouteGeometries(from, to)}

\* lines 111-117: the segment of a click, its marker named by the click
Segment(id, from, to) ==
    [id |-> id, loading |-> TRUE, from |-> from, to |-> to,
     geometry |-> <<from, to>>, marker |-> id]

\* popSegment() (lines 167-175) as a function of the container's fields; a
\* redraw that throws at line 174 comes after the fields have changed
popSegment(st) ==
    IF Len(st.segments) = 0 THEN st
    ELSE LET segment == st.segments[Len(st.segments)]
         IN  [segments |-> SubSeq(st.segments, 1, Len(st.segments) - 1),
              lastPoint |-> segment.from,
              markers |-> st.markers \ {segment.marker}]

\* redraw() (lines 77-93) throws: before the map's load event getSource
\* returns undefined (lines 91-92), and asLineString (line 184) cannot
\* destructure a point that is undefined
redrawThrows(loaded, segs) ==
    \/ ~loaded
    \/ \E k \in DOMAIN segs :
          \E j \in DOMAIN segs[k].geometry : segs[k].geometry[j] = "undefined"

\* the fields popSegment works on
Fields == [segments |-> segments, lastPoint |-> lastPoint, markers |-> markers]

\* lines 2-20: the state after the constructor
InitMap ==
    /\ DecIdle
    /\ SrcIdle
    /\ MainIdle
    /\ ScanIdle
    /\ MapIdle

\* line 18: the 'load' event, attachSources(); before it redraw() throws
\* (getSource returns undefined)
attachSources ==
    /\ ~mapLoaded
    /\ mapLoaded' = TRUE
    /\ UNCHANGED <<segments, pendingReq, lastPoint, markers, reqSegment, clicks,
                   settleLog, decVars, srcVars, mainVars, scanVars>>

\* addLineSegment(points) (lines 72-75): push, then redraw (a redraw that
\* throws comes after the push).  No event handler reaches this method and
\* nothing in the repository calls it, so it is no step of SpecMap.
addLineSegment(points) ==
    /\ segments' = Append(segments, points)
    /\ UNCHANGED <<mapLoaded, pendingReq, lastPoint, markers, reqSegment, clicks,
                   settleLog, decVars, srcVars, mainVars, scanVars>>

\* a handleClick without the check of lines 97-99
handleClickUnguarded(point) ==
    /\ clicks < MaxClicks
    /\ clicks' = clicks + 1
    /\ markers' = markers \cup {clicks + 1}
    /\ IF lastPoint = "null"
       THEN /\ lastPoint' = point
            /\ UNCHANGED <<segments, pendingReq, reqSegment>>
       ELSE /\ segments' = Append(segments, Segment(clicks + 1, lastPoint, point))
            /\ pendingReq' = "pending"
            /\ reqSegment' = [id |-> clicks + 1, from |-> lastPoint, to |-> point]
            /\ UNCHANGED lastPoint
    /\ UNCHANGED <<mapLoaded, settleLog, decVars, srcVars, mainVars, scanVars>>

\* lines 95-165, a 'click' event at `point`, with the first callback of the
\* promise chain (lines 119-131), which runs before any other event: push
\* the segment, redraw, send the request.  When redraw throws (the map has
\* not loaded, or lastPoint is undefined), no request is sent and the chain
\* runs on to catch (popSegment) and finally, which the log records as a
\* chain that ended in a rollback.
handleClick(point) ==
    /\ clicks < MaxClicks
    /\ clicks' = clicks + 1
    /\ IF pendingReq # "null"
       THEN UNCHANGED <<segments, pendingReq, lastPoint, markers, reqSegment, settleLog>>
       ELSE IF lastPoint = "null"
       THEN /\ lastPoint' = point
            /\ markers' = markers \cup {clicks + 1}
            /\ UNCHANGED <<segments, pendingReq, reqSegment, settleLog>>
       ELSE IF ~redrawThrows(mapLoaded,
                             Append(segments, Segment(clicks + 1, lastPoint, point)))
       THEN /\ segments' = Append(segments, Segment(clicks + 1, lastPoint, point))
            /\ markers' = markers \cup {clicks + 1}
            /\ pendingReq' = "pending"
            /\ reqSegment' = [id |-> clicks + 1, from |-> lastPoint, to |-> point]
            /\ UNCHANGED <<lastPoint, settleLog>>
       ELSE LET st == popSegment(
                        [segments |-> Append(segments,
                                             Segment(clicks + 1, lastPoint, point)),
                         lastPoint |-> lastPoint,
                         markers |-> markers \cup {clicks + 1}])
            IN  /\ segments' = st.segments
                /\ lastPoint' = st.lastPoint
                /\ markers' = st.markers
                /\ pendingReq' = "null"
                /\ settleLog' = Append(settleLog,
                      [id |-> clicks + 1, kind |-> "redraw", from |-> lastPoint,
                       rollback |-> TRUE])
                /\ UNCHANGED reqSegment
    /\ UNCHANGED <<mapLoaded, decVars, srcVars, mainVars, scanVars>>

\* lines 132-160: the request settles and the rest of the chain runs: the
\* callback of line 133 on a parsed response, catch on an error, finally.
\* On a route without points the callback has set lastPoint (141) and the
\* segment's fields (143-144) when marker.setLngLat(undefined) throws
\* (145-146), and catch runs popSegment on that state.  The log entry
\* records whether the chain rolled back: the branch of lines 136-139 or
\* the catch callback of lines 154-157 ran.
RouteSettles ==
    /\ pendingReq = "pending"
    /\ \E res \in Responses(reqSegment.from, reqSegment.to) :
          /\ IF res.kind = "route"
             THEN LET updated == [k \in DOMAIN segments |->
                                    IF segments[k].id = reqSegment.id
                                    THEN [segments[k] EXCEPT !.loading = FALSE,
                                                             !.geometry = res.geometry]
                                    ELSE segments[k]]
                      st == IF res.geometry # <<>>
                            THEN [segments |-> updated,
                                  lastPoint |-> LastOf(res.geometry),
                                  markers |-> markers]
                            ELSE popSegment([segments |-> updated,
                                             lastPoint |-> LastOf(res.geometry),
                                             markers |-> markers])
                  IN  /\ segments' = st.segments
                      /\ lastPoint' = st.lastPoint
                      /\ markers' = st.markers
             ELSE LET st == popSegment(Fields)
                  IN  /\ segments' = st.segments
                      /\ lastPoint' = st.lastPoint
                      /\ markers' = st.markers
          /\ settleLog' = Append(settleLog,
                [id |-> reqSegment.id, kind |-> res.kind, from |-> reqSegment.from,
                 rollback |-> res.kind # "route" \/ res.geometry = <<>>])
    /\ pendingReq' = "null"
    /\ reqSegment' = NoSegment
    /\ UNCHANGED <<mapLoaded, clicks, decVars, srcVars, mainVars, scanVars>>

\* lines 203-205: UndoMapControl.onClick, a click on the undo button
onClick ==
    /\ LET st == popSegment(Fields)
       IN  /\ segments' = st.segments
           /\ lastPoint' = st.lastPoint
           /\ markers' = st.markers
    /\ UNCHANGED <<mapLoaded, pendingReq, reqSegment, clicks, settleLog, decVars,
                   srcVars, mainVars, scanVars>>

MapClick == \E point \in ClickPoints : handleClick(point)

NextMap ==
    \/ attachSources
    \/ MapClick
    \/ RouteSettles
    \/ onClick

SpecMap == InitMap /\ [][NextMap]_vars

(***************************************************************************)
(* Properties of the decoders, checked under SpecDecode.                   *)
(***************************************************************************)
HRDone == decPc = "done" /\ decChar = CharacteristicUUIDHeartRateMeasurement
CPDone == decPc = "done" /\ decChar = CharacteristicUUIDCyclingPowerMeasurement

\* flag bit 0 of a heart-rate payload selects the 16-bit value
HRWide(buf) == buf[1] % 2 = 1
\* a heart-rate payload long enough for the layout its flags select
HRLongEnough(buf) == Len(buf) >= 2 /\ (HRWide(buf) => Len(buf) >= 3)
\* the contact-status field, flag bits 1-2, as a number 0..3
HRStatusField(buf) == (buf[1] \div 2) % 4

\* C5: every Cycling Power payload of length 0..3 is dropped silently: the
\* handler emits nothing and returns without failing.
C5_ShortPowerDropped ==
    (CPDone /\ Len(decBuf) < 4) => (decOut.emits = <<>> /\ ~decOut.panics)

\* C6: every Heart Rate payload shorter than the layout its flags select
\* (length < 2, or length < 3 with flag bit 0 set) is dropped silently: the
\* handler emits nothing and returns without failing.
C6_ShortHeartRateDropped ==
    (HRDone /\ ~HRLongEnough(decBuf)) => (decOut.emits = <<>> /\ ~decOut.panics)

\* C7 as stated: the Heart Rate payload [0x06, 0x50] produces no metric.
C7_Original ==
    (HRDone /\ decBuf = <<6, 80>>) => decOut.emits = <<>>

\* C7 amended: [0x06, 0x50] carries contact status 11 (supported and
\* detected) and produces exactly one metric HeartRate(80); the payload
\* whose status is supported-but-not-detected, [0x04, 0x50], produces none.
C7_ContactBits ==
    /\ (HRDone /\ decBuf = <<6, 80>>) =>
          (decOut.emits = <<DeviceMetric(MetricHeartRate, 80)>> /\ ~decOut.panics)
    /\ (HRDone /\ decBuf = <<4, 80>>) =>
          (decOut.emits = <<>> /\ ~decOut.panics)

C7_Witness == HRDone /\ decBuf = <<6, 80>> /\ Len(decOut.emits) = 1

\* C8 as stated: the two-byte Heart Rate payload [0x07, 0x50] produces
\* exactly one metric HeartRate(80).
C8_Original ==
    (HRDone /\ decBuf = <<7, 80>>) =>
        decOut.emits = <<DeviceMetric(MetricHeartRate, 80)>>

\* C8 amended: flag 0x07 selects the 16-bit value, so the payload that
\* produces exactly one metric HeartRate(80) is [0x07, 0x50, 0x00]; the
\* two-byte [0x07, 0x50] is one byte short and emits no metric.
C8_WidePayload ==
    /\ (HRDone /\ decBuf = <<7, 80, 0>>) =>
          (decOut.emits = <<DeviceMetric(MetricHeartRate, 80)>> /\ ~decOut.panics)
    /\ (HRDone /\ decBuf = <<7, 80>>) => decOut.emits = <<>>

C8_Witness == HRDone /\ decBuf = <<7, 80, 0>> /\ Len(decOut.emits) = 1

\* C9: for a Heart Rate payload long enough for its layout, nothing is
\* emitted exactly when the contact-status field is 10 (supported, not
\* detected); for 00, 01 and 11 exactly one HeartRate metric is emitted.
C9_ContactPolicy ==
    (HRDone /\ HRLongEnough(decBuf)) =>
        /\ ~decOut.panics
        /\ (HRStatusField(decBuf) = 2) <=> (decOut.emits = <<>>)
        /\ (HRStatusField(decBuf) \in {0, 1, 3}) =>
              (Len(decOut.emits) = 1 /\ decOut.emits[1].kind = MetricHeartRate)

C9_Witness ==
    /\ HRDone /\ HRLongEnough(decBuf) /\ decOut.emits = <<>>
    /\ HRStatusField(decBuf) = 2 /\ HRWide(decBuf)

\* C10: whenever the Heart Rate handler emits, the metric has kind
\* HeartRate and its value is byte 1 as an unsigned 8-bit integer when flag
\* bit 0 is clear, and bytes 1-2 as a little-endian signed 16-bit integer
\* when it is set; [0x00,0x48] and [0x01,0x48,0x00] give HeartRate(72), and
\* a value of 0 is emitted like any other.
C10_HeartRateValue ==
    /\ (HRDone /\ decOut.emits # <<>>) =>
          /\ Len(decOut.emits) = 1
          /\ decOut.emits[1].kind = MetricHeartRate
          /\ ~HRWide(decBuf) => decOut.emits[1].value = decBuf[2]
          /\ HRWide(decBuf) =>
                LET u == decBuf[2] + 256 * decBuf[3]
                IN  decOut.emits[1].value = IF u < 32768 THEN u ELSE u - 65536
    /\ (HRDone /\ decBuf \in {<<0, 72>>, <<1, 72, 0>>}) =>
          decOut.emits = <<DeviceMetric(MetricHeartRate, 72)>>
    /\ (HRDone /\ decBuf \in {<<0, 0>>, <<1, 0, 0>>}) =>
          decOut.emits = <<DeviceMetric(MetricHeartRate, 0)>>

C10_Witness ==
    /\ HRDone /\ decBuf = <<1, 0, 255>>
    /\ decOut.emits = <<DeviceMetric(MetricHeartRate, -256)>>

\* bytes lo, hi read as a little-endian signed 16-bit integer
SignedLE(lo, hi) == IF hi >= 128 THEN lo + 256 * hi - 65536 ELSE lo + 256 * hi

\* C11: for every Cycling Power payload of at least 4 bytes, whatever its
\* flags, the handler emits nothing when bytes 2-3 read as a little-endian
\* signed 16-bit integer are 0, and otherwise emits exactly one metric
\* CyclingPower(p) with p that signed value; [0,0,0x64,0] gives
\* CyclingPower(100) and [0,0,0,0] gives nothing.
C11_PowerDecoding ==
    /\ (CPDone /\ Len(decBuf) >= 4) =>
          LET p == SignedLE(decBuf[3], decBuf[4])
          IN  decOut.emits = IF p = 0 THEN <<>>
                             ELSE <<DeviceMetric(MetricCyclingPower, p)>>
    /\ (CPDone /\ decBuf = <<0, 0, 100, 0>>) =>
          decOut.emits = <<DeviceMetric(MetricCyclingPower, 100)>>
    /\ (CPDone /\ decBuf = <<0, 0, 0, 0>>) => decOut.emits = <<>>

\* a negative power, under flags with every sampled bit set
C11_Witness ==
    /\ CPDone /\ decBuf = <<255, 255, 0, 255>>
    /\ decOut.emits = <<DeviceMetric(MetricCyclingPower, -256)>>

\* bit k of byte b
BitOf(b, k) == (b \div (2^k)) % 2

\* the trailing offset the flags of a Cycling Power payload announce:
\* 4 + 1 (pedal power balance, bit 0) + 2 (accumulated torque, bit 2)
\*   + 6 (wheel revolution, bit 4) + 4 (crank revolution, bit 5)
AnnouncedOffset(buf) ==
    4 + BitOf(buf[1], 0) + 2 * BitOf(buf[1], 2) + 6 * BitOf(buf[1], 4)
      + 4 * BitOf(buf[1], 5)

\* C12 as stated: for every Cycling Power payload (here: every payload long
\* enough to hold the power field), whatever its bytes, the power bytes
\* included, the handler computes the offset its flags announce.
C12_Original ==
    (CPDone /\ Len(decBuf) >= 4) => decOut.offset = <<AnnouncedOffset(decBuf)>>

\* C12 amended: the handler computes the offset only after it emitted, that
\* is for a payload of at least 4 bytes whose power is not 0; the offset
\* is then the one the flags announce, whatever the other bytes and flag
\* bits are (11 when exactly the pedal-power-balance and wheel-revolution
\* flags are set); for a zero power or a shorter payload it computes none.
C12_OffsetAfterEmit ==
    /\ (CPDone /\ decOut.emits # <<>>) =>
          /\ Len(decBuf) >= 4
          /\ decOut.offset = <<AnnouncedOffset(decBuf)>>
    /\ (CPDone /\ decOut.emits = <<>>) => decOut.offset = <<>>
    /\ (CPDone /\ Len(decBuf) >= 4 /\ decBuf[1] = 17 /\ decBuf[2] = 0
           /\ decOut.emits # <<>>) => decOut.offset = <<11>>

C12_Witness ==
    /\ CPDone /\ decBuf = <<17, 0, 100, 0>>
    /\ decOut.offset = <<11>>

\* the encoders of the round trip.  The optional fields that the flags
\* announce follow the value field, and neither handler reads them: an
\* encoding is given up to its value field, and a payload encodes (flags,
\* value) when it starts with these bytes.
\* v as two little-endian bytes, two's complement
EncodeLE16(v) ==
    LET u == IF v < 0 THEN v + 65536 ELSE v
    IN  <<u % 256, u \div 256>>

\* Heart Rate: the flag byte, then the value as uint8 (flag bit 0 clear) or
\* as a little-endian 16-bit integer (flag bit 0 set)
EncodeHeartRate(flag, v) ==
    IF BitOf(flag, 0) = 1 THEN <<flag>> \o EncodeLE16(v) ELSE <<flag, v>>

\* Cycling Power: the 16-bit flags, little-endian, then the power as a
\* little-endian signed 16-bit integer
EncodeCyclingPower(flags, v) == <<flags % 256, flags \div 256>> \o EncodeLE16(v)

StartsWith(buf, enc) == Len(buf) >= Len(enc) /\ SubSeq(buf, 1, Len(enc)) = enc

\* the field values whose encodings are drawn in SpecDecode
ValuesU8 == ByteSamples
ValuesS16 == {SignedLE(lo, hi) : lo \in ByteSamples, hi \in ByteSamples}
\* the values of the encoding that a heart-rate flag byte selects
HeartRateValues(flag) == IF BitOf(flag, 0) = 1 THEN ValuesS16 ELSE ValuesU8

\* C13 as stated: for each decoder, every flag combination and every field
\* value of the selected encoding, decoding the encoded payload yields
\* exactly the DeviceMetric of the decoder's kind with that value.
C13_Original ==
    /\ HRDone =>
          \A v \in ValuesU8 \cup ValuesS16 :
              (/\ decBuf # <<>>
               /\ v \in HeartRateValues(decBuf[1])
               /\ StartsWith(decBuf, EncodeHeartRate(decBuf[1], v)))
                  => decOut.emits = <<DeviceMetric(MetricHeartRate, v)>>
    /\ CPDone =>
          \A v \in ValuesS16 :
              (/\ Len(decBuf) >= 2
               /\ StartsWith(decBuf,
                      EncodeCyclingPower(decBuf[1] + 256 * decBuf[2], v)))
                  => decOut.emits = <<DeviceMetric(MetricCyclingPower, v)>>

\* C13 amended: the round trip holds for every flag combination and value
\* except the two the decoders drop by policy: a Heart Rate flag byte whose
\* contact status is 10 (supported, not detected) and a Cycling Power
\* value of 0; for these, decoding the encoded payload yields no metric.
C13_RoundTrip ==
    /\ HRDone =>
          \A v \in ValuesU8 \cup ValuesS16 :
              (/\ decBuf # <<>>
               /\ v \in HeartRateValues(decBuf[1])
               /\ StartsWith(decBuf, EncodeHeartRate(decBuf[1], v)))
                  => decOut.emits =
                        IF HRStatusField(decBuf) = 2 THEN <<>>
                        ELSE <<DeviceMetric(MetricHeartRate, v)>>
    /\ CPDone =>
          \A v \in ValuesS16 :
              (/\ Len(decBuf) >= 2
               /\ StartsWith(decBuf,
                      EncodeCyclingPower(decBuf[1] + 256 * decBuf[2], v)))
                  => decOut.emits =
                        IF v = 0 THEN <<>>
                        ELSE <<DeviceMetric(MetricCyclingPower, v)>>

\* a negative 16-bit heart-rate value under flags that announce every
\* optional field, followed by a trailing byte
C13_Witness ==
    /\ HRDone /\ decBuf = <<25, 72, 255, 100>>
    /\ StartsWith(decBuf, EncodeHeartRate(25, -184))
    /\ decOut.emits = <<DeviceMetric(MetricHeartRate, -184)>>

(***************************************************************************)
(* Properties of MetricSource, checked under SpecSource.                   *)
(***************************************************************************)
\* the EnableNotifications calls made for source s, in order
EnableCalls(s) == SelectSeq(enableLog, LAMBDA e : e.src = s)

\* the accepted sends of emit number e, in order
DeliveriesOf(e) == SelectSeq(deliveries, LAMBDA d : d.emit = e)

\* the channels that accepted emit number e, in order of acceptance
AcceptedBy(e) == [i \in 1..Len(DeliveriesOf(e)) |-> DeliveriesOf(e)[i].chan]

\* C1: over any sequence of AddSink calls on one MetricSource the
\* EnableNotifications call is made exactly once: by the first AddSink,
\* when the sink list holds exactly that first sink, and never by a later
\* AddSink.
C1_SubscribeOnce ==
    \A s \in DOMAIN src :
        IF src[s].sinks = <<>>
        THEN EnableCalls(s) = <<>>
        ELSE /\ Len(EnableCalls(s)) = 1
             /\ EnableCalls(s)[1].sinks = <<src[s].sinks[1]>>

C1_Witness ==
    /\ Len(src[TheSource].sinks) >= 2
    /\ Len(EnableCalls(TheSource)) = 1

\* C2: every emit(m) hands m to the sinks registered when emit was called,
\* one send per registered sink, in registration order: the accepted sends
\* are always a prefix of that list, carry m, and are the whole list (at
\* least one sink) once emit has returned; sinks registered later receive
\* nothing of it.
C2_FanOut ==
    \A e \in 1..Len(emits) :
        /\ \A i \in 1..Len(DeliveriesOf(e)) : DeliveriesOf(e)[i].m = emits[e].m
        /\ Len(AcceptedBy(e)) <= Len(emits[e].at)
        /\ AcceptedBy(e) = SubSeq(emits[e].at, 1, Len(AcceptedBy(e)))
        /\ emits[e].done => (AcceptedBy(e) = emits[e].at /\ Len(AcceptedBy(e)) >= 1)

C2_Witness ==
    \E e \in 1..Len(emits) :
        /\ emits[e].done
        /\ Len(emits[e].at) = 2
        /\ AcceptedBy(e) = emits[e].at
        /\ Len(src[emits[e].src].sinks) > Len(emits[e].at)

\* C3: emit is a blocking hand-off: the handler that called emit(m) has not
\* returned, and its source has decoded no further notification, unless
\* every sink registered at the call has accepted m.
C3_BlockingHandoff ==
    \A e \in 1..Len(emits) :
        LET s == emits[e].src
        IN  (src[s].hpc = "idle" \/ src[s].hemit # e \/ src[s].ndecoded > emits[e].ord)
                => Len(DeliveriesOf(e)) = Len(emits[e].at)

\* a handler blocked in a send to a consumer that is not receiving, after
\* an earlier sink accepted the metric
C3_Witness ==
    /\ src[TheSource].hpc = "emit"
    /\ src[TheSource].hi = 2
    /\ Len(src[TheSource].hsnap) >= 2
    /\ chanRecv[src[TheSource].hsnap[2]] = "got"
    /\ Len(DeliveriesOf(src[TheSource].hemit)) = 1

(***************************************************************************)
(* Properties of the metric flow in connect mode, checked under SpecFlow.  *)
(***************************************************************************)
\* how many times the aggregate consumer received emit number e
ReceivedCount(e) ==
    Len(SelectSeq(deliveries, LAMBDA d : d.emit = e /\ d.chan = MetricsChan))

\* C4: no metric is lost between decoding and consumption: the aggregate
\* consumer never receives an emitted metric twice, has received it exactly
\* once when its emit completes, and until it has accepted the metric the
\* emitting source stays inside that emit; and, the consumer receiving for
\* as long as the process runs, every emit eventually completes.
C4_NoLoss ==
    /\ [](\A e \in 1..Len(emits) :
            /\ ReceivedCount(e) <= 1
            /\ \A d \in 1..Len(DeliveriesOf(e)) : DeliveriesOf(e)[d].m = emits[e].m
            /\ emits[e].done => ReceivedCount(e) = 1
            /\ ReceivedCount(e) = 0 =>
                  (src[emits[e].src].hpc = "emit" /\ src[emits[e].src].hemit = e))
    /\ \A s \in FlowSourceIds :
          (s \in DOMAIN src /\ src[s].hpc = "emit") ~>
              (aborted \/ (s \in DOMAIN src /\ src[s].hpc = "idle"))

\* one metric consumed, and a second source stalled in its send while the
\* consumer still holds another metric
C4_Witness ==
    /\ \E e \in 1..Len(emits) : emits[e].done /\ ReceivedCount(e) = 1
    /\ \E s \in DOMAIN src :
          src[s].hpc = "emit" /\ src[s].hi = 1 /\ chanRecv[MetricsChan] = "got"

(***************************************************************************)
(* Properties of scan mode, checked under SpecScan.                        *)
(***************************************************************************)
\* the positions in seq whose element has address a
IndexesOf(seq, a) == {i \in 1..Len(seq) : seq[i].addr = a}

\* a scan result advertises at least one known service identifier
Qualifies(result) ==
    \E k \in 1..Len(KnownServiceUUIDs) : KnownServiceUUIDs[k] \in result.services

\* C14: within one scan run no device address is reported more than once,
\* and an address seen twice or more, each time advertising a known
\* service, has exactly one report.
C14_ScanDedup ==
    \A a \in ScanAddrs :
        /\ Cardinality(IndexesOf(reports, a)) <= 1
        /\ (/\ Cardinality(IndexesOf(scanLog, a)) >= 2
            /\ \A i \in IndexesOf(scanLog, a) : Qualifies(scanLog[i]))
               => Cardinality(IndexesOf(reports, a)) = 1

\* an address seen three times with a known service each time, reported once
C14_Witness ==
    /\ Cardinality(IndexesOf(scanLog, "d1")) = 3
    /\ \A i \in IndexesOf(scanLog, "d1") : Qualifies(scanLog[i])
    /\ Cardinality(IndexesOf(reports, "d1")) = 1

\* C15: a result that arrives for an address not yet reported and that
\* advertises a known service produces a report for that address; so
\* every address that has advertised a known service in some result
\* delivered so far has exactly one report.
C15_ScanReportsQualifying ==
    \A a \in ScanAddrs :
        (\E i \in IndexesOf(scanLog, a) : Qualifies(scanLog[i]))
            => Cardinality(IndexesOf(reports, a)) = 1

\* the display name of a service: the registered name, or a string
\* synthesized from the identifier
DisplayName(svc) ==
    IF svc = ServiceUUIDCyclingPower THEN "Cycling Power"
    ELSE IF svc = ServiceUUIDHeartRate THEN "Heart Rate"
    ELSE "unknown:" \o svc

\* the display names of the known services a result advertises, in
\* known-service order
MatchedNames(result) ==
    LET matched == SelectSeq(KnownServiceUUIDs, LAMBDA svc : svc \in result.services)
    IN  [k \in 1..Len(matched) |-> DisplayName(matched[k])]

\* C16: a result that advertises no known service never produces a
\* report, and the service names of a report are exactly the names of the
\* known services its result advertises, in known-service order.
C16_ScanFilter ==
    \A r \in 1..Len(reports) :
        /\ Qualifies(scanLog[reports[r].of])
        /\ reports[r].services = MatchedNames(scanLog[reports[r].of])

(***************************************************************************)
(* Properties of the connection attempts, checked under SpecRetry.         *)
(***************************************************************************)
\* how many times x occurs in seq
Count(seq, x) == Cardinality({k \in 1..Len(seq) : seq[k] = x})

\* task i exists and is at one of the given positions
TaskAt(i, pcs) == IF i \in DOMAIN task THEN task[i] \in pcs ELSE FALSE

\* the task has handed off its connection
HandedOff(i) == task[i] \in {"sent", "done"}

\* C17: a task whose connect failed attempts again, and while it is in
\* its retry loop another attempt is always possible (no cap); it hands off
\* its connection exactly once, at its first success, and makes no connect
\* attempt afterwards; every hand-off is one receipt by main, which then
\* sets up that device.
C17_ConnectRetry ==
    /\ [](\A i \in DOMAIN task :
            /\ (task[i] = "connect" /\ ~aborted) => ENABLED TaskConnect(i)
            /\ Count(handoffs, i) = IF HandedOff(i) THEN 1 ELSE 0)
    /\ [][\A i \in DOMAIN task :
            /\ failures'[i] # failures[i] =>
                  (task[i] = "connect" /\ task'[i] = "connect")
            /\ HandedOff(i) => (HandedOff(i)' /\ failures'[i] = failures[i])
            /\ (~HandedOff(i) /\ HandedOff(i)') =>
                  /\ task[i] = "send" /\ task'[i] = "sent"
                  /\ handoffs' = Append(handoffs, i)
                  /\ mainPc = "devices" /\ mainPc' = "services" /\ curDev' = i]_vars

\* one task done after a failed attempt, the other still retrying
C17_Witness ==
    /\ Len(task) = 2 /\ ~aborted
    /\ task[1] = "done" /\ failures[1] >= 1 /\ handoffs = <<1>>
    /\ task[2] = "connect" /\ failures[2] >= 1

\* main has received the device of task i and finished its service loop
DeviceSetUp(i) ==
    /\ Count(handoffs, i) = 1
    /\ ~(curDev = i /\ mainPc \in {"services", "service", "characteristic"})

\* the process died of a failed discovery of services or characteristics
DiedInDiscovery ==
    aborted /\ fatal \in {"DiscoverServices", "DiscoverCharacteristics"}

\* C18: under fair scheduling and successful discovery, every task whose
\* connect succeeded eventually has its device fully set up, an
\* EnableNotifications call made for each of its sources, whatever the
\* other tasks do.
C18_EarlySuccess ==
    /\ [](\A i \in DOMAIN task : DeviceSetUp(i) =>
            \A s \in DOMAIN src : s[1] = i => Len(EnableCalls(s)) = 1)
    /\ \A i \in TaskIds :
          TaskAt(i, {"send"}) ~> (DiedInDiscovery \/ DeviceSetUp(i))

\* C19: the device stream is closed only after every task has handed off
\* its connection and ended; no connection is handed off on a closed
\* stream; and if some task never ends, the stream is never closed.
C19_CompletionSignal ==
    /\ [](closerPc = "closed" => \A i \in DOMAIN task : task[i] = "done")
    /\ [][handoffs' # handoffs => (closerPc # "closed" /\ closerPc' # "closed")]_vars
    /\ (\E i \in TaskIds : []TaskAt(i, {"none", "parse", "connect", "send", "sent"}))
          => [](closerPc # "closed")

\* the stream closed after two hand-offs, one of them after a failure
C19_Witness ==
    /\ closerPc = "closed" /\ Len(task) = 2 /\ Len(handoffs) = 2
    /\ failures[2] >= 1

\* C20: a failed connect attempt of a task changes nothing but that
\* task's record of failures: the process does not abort, the stream is
\* not closed, nothing is handed off, and the other tasks, main, the
\* sources, their subscriptions and the metrics in flight are unchanged.
C20_FailedAttemptFrame ==
    [][\A i \in DOMAIN task :
          failures'[i] # failures[i] =>
              /\ ~aborted /\ ~aborted'
              /\ task' = task
              /\ \A j \in DOMAIN task : j # i => failures'[j] = failures[j]
              /\ UNCHANGED <<closerPc, handoffs, wg, mainPc, curDev, curServices, curChars,
                             spawned, src, sub, chanRecv, notifs, enableLog, emits,
                             deliveries, fatal>>]_vars

\* task 1 has failed and retries while the session of task 2 has delivered
\* a metric
C20_Witness ==
    /\ Len(task) = 2 /\ ~aborted
    /\ task[1] = "connect" /\ failures[1] >= 1
    /\ \E e \in 1..Len(emits) : emits[e].src[1] = 2 /\ emits[e].done

(***************************************************************************)
(* Properties of the whole program, checked under SpecProgram.             *)
(***************************************************************************)
\* the failures of the transport that the program treats as fatal
TransportFailures ==
    {"adapter.Enable", "adapter.Scan", "DiscoverServices", "DiscoverCharacteristics"}

\* C21: transport-level failures are fatal.  A step in which adapter.Enable,
\* adapter.Scan, DiscoverServices or DiscoverCharacteristics fails leaves
\* the process aborted, and after such a failure nothing happens any more:
\* no device is handed off or set up, no source is created or subscribed,
\* no metric is emitted or consumed, no scan report is printed.
C21_TransportFatal ==
    [][/\ fatal' \in TransportFailures => aborted'
       /\ fatal \in TransportFailures =>
             UNCHANGED <<handoffs, curDev, curServices, curChars, src, sub, enableLog, task,
                         emits, deliveries, chanRecv, reports, scanLog>>]_vars

\* the discovery on a second device failed when a source of the first was
\* subscribed and the transport still had notifications for it
C21_Witness ==
    /\ fatal = "DiscoverServices" /\ aborted
    /\ Len(handoffs) = 2 /\ notifs > 0
    /\ \E s \in DOMAIN sub : sub[s] # "nil" /\ chanRecv[MetricsChan] = "recv"

\* the handlers that decode a characteristic
Decoders == {"handleHeartRateMeasurement", "handleCyclingPowerMeasurement"}

\* C22: session wiring.  Every MetricSource the device loop has created is
\* bound to the decoder of its characteristic, its sink list is exactly
\* <<metricsChan>>, and it asked the transport for its subscription exactly
\* once, with that decoder as the handler.
C22_SessionWiring ==
    \A s \in DOMAIN src :
        /\ src[s].sinks = <<MetricsChan>>
        /\ notificationHandler(src[s].ch) \in Decoders
        /\ Len(EnableCalls(s)) = 1
        /\ EnableCalls(s)[1].handler = notificationHandler(src[s].ch)

\* the device stream has completed: deviceChan is closed and main is not
\* setting a device up
StreamCompleted == closerPc = "closed" /\ mainPc \in {"devices", "blocked"}

\* C23: in connect mode the process does not exit on its own.  Once the
\* device stream has completed, the only step main takes is the one into
\* select {}, where it stays; with no target address main never waits for
\* a device; and while main is blocked and no fatal error has occurred,
\* the transport can still notify every subscribed source that is idle,
\* a handler's send can still reach the waiting consumer, and the consumer
\* can still print.
C23_BlocksForever ==
    /\ [][StreamCompleted => mainPc' \in {mainPc, "blocked"} /\ closerPc' = "closed"]_vars
    /\ [](flagDeviceAddrs = <<>> /\ ~flagScanMode
            => mainPc \in {"enable", "spawn", "devices", "blocked"})
    /\ [](mainPc = "blocked" /\ ~aborted =>
            /\ \A s \in DOMAIN sub :
                  (src[s].hpc = "idle" /\ notifs > 0) => ENABLED MainNotify(s)
            /\ \A s \in DOMAIN src :
                  (src[s].hpc = "emit" /\ src[s].hi = 1 /\ chanRecv[MetricsChan] = "recv")
                      => ENABLED MainEmitSend(s)
            /\ chanRecv[MetricsChan] = "got" => ENABLED MainConsume)

\* main is blocked in select {} while the handler of a subscribed source is
\* about to send a metric to the waiting consumer
C23_Witness ==
    /\ mainPc = "blocked" /\ ~aborted
    /\ \E s \in DOMAIN sub :
          src[s].hpc = "emit" /\ src[s].hi = 1 /\ chanRecv[MetricsChan] = "recv"

(***************************************************************************)
(* Further properties of the decoders, checked under SpecDecode.           *)
(***************************************************************************)
\* the kind of metric the handler of a characteristic produces
KindOf(ch) ==
    IF ch = CharacteristicUUIDHeartRateMeasurement THEN MetricHeartRate
    ELSE MetricCyclingPower

\* C24: a handler call for one notification hands at most one metric to
\* emit, and that metric has kind HeartRate (from the heart-rate handler) or
\* CyclingPower (from the cycling-power handler), never CyclingSpeed or
\* CyclingCadence.
C24_KindsEmitted ==
    decPc = "done" =>
        /\ Len(decOut.emits) <= 1
        /\ \A k \in 1..Len(decOut.emits) :
              /\ decOut.emits[k].kind \in {MetricHeartRate, MetricCyclingPower}
              /\ decOut.emits[k].kind = KindOf(decChar)
              /\ decOut.emits[k].kind \notin {MetricCyclingSpeed, MetricCyclingCadence}

\* a cycling-power notification with the wheel and crank flags set, whose
\* one metric is the power and nothing about speed or cadence
C24_Witness ==
    /\ decPc = "done" /\ decChar = CharacteristicUUIDCyclingPowerMeasurement
    /\ decBuf = <<48, 0, 100, 0>>
    /\ decOut.emits = <<DeviceMetric(MetricCyclingPower, 100)>>

(***************************************************************************)
(* Further properties of the whole program, checked under SpecProgram.     *)
(***************************************************************************)
\* C25: a notification delivered to a MetricSource whose characteristic has
\* no decoder is skipped: the step that delivers it emits no metric and
\* does not abort the process.
C25_UnknownSkipped ==
    [][\A s \in DOMAIN src :
          (notificationHandler(src[s].ch) = "nil"
           /\ src'[s].ndecoded # src[s].ndecoded)
              => (emits' = emits /\ ~aborted')]_vars

\* the step registers a sink on source s: it creates s or changes its list
Registers(s) == s \notin DOMAIN src \/ src'[s].sinks # src[s].sinks

\* no notification has been delivered to the handler of s and none is being
\* handled, and s is not subscribed
Untouched(s) ==
    /\ s \notin DOMAIN sub
    /\ s \in DOMAIN src => (src[s].ndecoded = 0 /\ src[s].hpc = "idle")

\* C26, as stated: every AddSink on a source happens before a notification
\* can be delivered to that source's handler, and no sink is registered on
\* any source once notifications have started arriving at any source.
C26_Original ==
    [][\A s \in DOMAIN src' :
          Registers(s) =>
              /\ Untouched(s)
              /\ \A t \in DOMAIN src : src[t].ndecoded = 0]_vars

\* C26, amended: every AddSink on a source happens before that source is
\* subscribed, so before a notification can be delivered to its handler,
\* and the sink list of a source whose emit is iterating does not change.
\* (Sinks are registered on other sources while earlier ones already
\* receive notifications.)
C26_SinksBeforeNotifications ==
    [][\A s \in DOMAIN src' :
          /\ Registers(s) => Untouched(s)
          /\ (s \in DOMAIN src /\ src[s].hpc = "emit") =>
                src'[s].sinks = src[s].sinks]_vars

\* main is about to register the sink of a new source while the handler of
\* an earlier source is inside emit
C26_Witness ==
    /\ mainPc = "characteristic" /\ ~aborted
    /\ \E t \in DOMAIN src : src[t].hpc = "emit" /\ src[t].sinks = <<MetricsChan>>

\* C27: connect mode starts one connection-attempt task per distinct target
\* address: no two started tasks have the same address.
C27_OneTaskPerAddress ==
    \A i, j \in DOMAIN task :
        (i # j /\ task[i] # "none" /\ task[j] # "none")
            => flagDeviceAddrs[i] # flagDeviceAddrs[j]

\* C28: no service name shown is empty: not in a scan report, and not
\* during the set-up of a discovered service.
C28_NamesNotEmpty ==
    /\ \A r \in 1..Len(reports) :
          \A k \in 1..Len(reports[r].services) : reports[r].services[k] # ""
    /\ \A k \in 1..Len(KnownServiceUUIDs) :
          SessionServiceName(KnownServiceUUIDs[k]) # ""

\* C29: scan mode has no end of its own.  Once scanning has started the
\* program stays in the scan; in scan mode the process ends only through a
\* fatal error of adapter.Enable or adapter.Scan; and in scan mode no
\* connection task is started, no device is handed off, no source is
\* created and no metric is emitted or consumed.
C29_ScanRunsOn ==
    /\ [][scanPc = "scanning" => scanPc' = "scanning"]_vars
    /\ [][flagScanMode => flagScanMode']_vars
    /\ [](flagScanMode =>
            /\ scanPc \in {"enable", "scan", "scanning"} /\ mainPc = "none"
            /\ aborted => fatal \in {"adapter.Enable", "adapter.Scan"}
            /\ spawned = 0 /\ \A i \in DOMAIN task : task[i] = "none"
            /\ handoffs = <<>> /\ closerPc = "none"
            /\ src = NoSources /\ sub = NoSources
            /\ emits = <<>> /\ deliveries = <<>>)

\* -scan was given with a -device argument; both addresses seen have been
\* reported and the scan goes on, no task started
C29_Witness ==
    /\ scanPc = "scanning" /\ ~aborted /\ flagDeviceAddrs = <<"a1">>
    /\ Len(reports) = 2 /\ Len(scanLog) = 3

(***************************************************************************)
(* Non-interference of the heart-rate decoder, checked under SpecDecode.   *)
(***************************************************************************)
\* the bytes of the heart-rate value field that a payload holds: byte 1, and
\* byte 2 when flag bit 0 selects the 16-bit value and the byte is there
HRValueField(buf) ==
    IF Len(buf) < 2 THEN <<>>
    ELSE SubSeq(buf, 2, IF HRWide(buf) /\ Len(buf) >= 3 THEN 3 ELSE 2)

\* the one payload that stands for all payloads agreeing with buf on flag
\* bits 0-2 and on the value field: those flag bits, the value field, and
\* nothing else
HRCanonical(buf) == <<buf[1] % 8>> \o HRValueField(buf)

\* C30: the outcome of the heart-rate handler on a payload is its outcome
\* on the payload reduced to flag bits 0-2 and the value field.  Two
\* payloads that agree on these reduce to the same payload, so their
\* outcomes are identical: flag bits 3-7 and the bytes after the value
\* field do not change the outcome.
C30_HeartRateNonInterference ==
    (HRDone /\ decBuf # <<>>) =>
        decOut = handleHeartRateMeasurement(HRCanonical(decBuf))

\* a 16-bit value under a flag byte with bits 3-7 all set, followed by
\* another byte
C30_Witness ==
    /\ HRDone /\ decBuf = <<249, 72, 100, 0>>
    /\ decOut.emits = <<DeviceMetric(MetricHeartRate, 25672)>>

(***************************************************************************)
(* Ordering at the shared sink, checked under SpecFlow.                    *)
(***************************************************************************)
\* the emits of source s that its handler has not finished
Outstanding(s) == {e \in 1..Len(emits) : emits[e].src = s /\ ~emits[e].done}

\* C31: the consumer receives the metrics of each source in the order in
\* which that source decoded their notifications; every emit of a source
\* before the one it is sending has been received; and a source has at most
\* one emit that is not finished.  Metrics of different sources may be
\* received in any order.
C31_FifoPerSource ==
    /\ \A i, j \in 1..Len(deliveries) :
          (i < j /\ emits[deliveries[i].emit].src = emits[deliveries[j].emit].src)
              => emits[deliveries[i].emit].ord < emits[deliveries[j].emit].ord
    /\ \A e, f \in 1..Len(emits) :
          (emits[e].src = emits[f].src /\ emits[e].ord < emits[f].ord)
              => ReceivedCount(e) = 1
    /\ \A s \in DOMAIN src : Cardinality(Outstanding(s)) <= 1

\* the consumer received two metrics of one source with a metric of another
\* source in between
C31_Witness ==
    /\ Len(deliveries) = 3
    /\ emits[deliveries[1].emit].src = emits[deliveries[3].emit].src
    /\ emits[deliveries[2].emit].src # emits[deliveries[1].emit].src

(***************************************************************************)
(* The registry as the device loop uses it, checked under SpecProgram.     *)
(***************************************************************************)
\* C32: registry consistency.  Whenever main is about to discover the
\* characteristics of a service it asked DiscoverServices for, that service
\* has a display name and a non-empty list of characteristics of interest
\* (so DiscoverCharacteristics is not called with an empty list), and each
\* of those characteristics has a display name and a decoder.
C32_RegistryConsistent ==
    (mainPc = "service" /\ ~aborted) =>
        LET svc == Head(curServices)
            knownChars == KnownServiceCharacteristicUUIDs(svc)
        IN  /\ KnownServiceNames(svc) # ""
            /\ knownChars # <<>>
            /\ \A k \in 1..Len(knownChars) :
                  /\ KnownCharacteristicNames(knownChars[k]) # ""
                  /\ notificationHandler(knownChars[k]) \in Decoders

(***************************************************************************)
(* A failed subscription, checked under SpecSource.                        *)
(***************************************************************************)
\* the first AddSink on s asked for the subscription and the transport did
\* not install it
SubscriptionFailed(s) == EnableCalls(s) # <<>> /\ s \notin DOMAIN sub

\* C33: a failed subscription is neither fatal nor retried.  The process
\* has not aborted, the sinks registered on the source are all still in its
\* list, the one EnableNotifications call of the first AddSink is the only
\* one however many sinks were added since, and the source has decoded no
\* notification and emitted no metric.
C33_FailedSubscription ==
    \A s \in DOMAIN src :
        SubscriptionFailed(s) =>
            /\ ~aborted
            /\ Len(src[s].sinks) >= 1
            /\ Len(EnableCalls(s)) = 1
            /\ EnableCalls(s)[1].sinks = SubSeq(src[s].sinks, 1, 1)
            /\ src[s].ndecoded = 0 /\ src[s].hpc = "idle"
            /\ \A e \in 1..Len(emits) : emits[e].src # s

\* three sinks were added after the subscription failed, with notifications
\* still to come from the device
C33_Witness ==
    /\ SubscriptionFailed(TheSource) /\ ~aborted
    /\ Len(src[TheSource].sinks) = 3 /\ notifs > 0
    /\ notificationHandler(src[TheSource].ch) = "handleHeartRateMeasurement"

(***************************************************************************)
(* A target address that does not parse, checked under SpecProgram.        *)
(***************************************************************************)
\* task i was started for an address that bluetooth.ParseUUID rejects
BadTarget(i) == task[i] # "none" /\ ~ParsesAsUUID(flagDeviceAddrs[i])

\* C34: a task whose address does not parse never gets to a connect
\* attempt; as long as the process runs, its abort is the step it can take,
\* whatever the other tasks and sessions are doing; the abort comes from
\* such a task and changes nothing else; and once the process has aborted
\* no task, session or consumer takes another step.
C34_BadAddressAborts ==
    /\ [](\A i \in DOMAIN task :
            BadTarget(i) =>
                /\ task[i] = "parse"
                /\ ~aborted => ENABLED TaskParse(i))
    /\ [][(fatal' = "ParseUUID" /\ fatal = "") =>
             /\ aborted' /\ ~aborted
             /\ \E i \in DOMAIN task : BadTarget(i)
             /\ UNCHANGED <<task, failures, handoffs, src, sub, emits, deliveries>>]_vars
    /\ [][fatal = "ParseUUID" => UNCHANGED <<task, failures, handoffs, mainPc, src,
                                             sub, emits, deliveries, chanRecv>>]_vars

\* the second address did not parse and its task aborted the process while
\* the session of the first was sending a metric to the consumer
C34_Witness ==
    /\ fatal = "ParseUUID" /\ aborted
    /\ flagDeviceAddrs = <<"a1", BadAddr>>
    /\ \E s \in DOMAIN sub : s[1] = 1 /\ src[s].hpc = "emit" /\ src[s].hi = 1

(***************************************************************************)
(* Properties of MapContainer, checked under SpecMap.                      *)
(***************************************************************************)
\* the positions of the segments in the list that are in the loading state
LoadingSegments == {k \in DOMAIN segments : segments[k].loading}

\* C35: a map click received while a request is pending changes nothing (no
\* marker, no segment, lastPoint and pendingReq as before), so at most one
\* request is in flight; at most one segment in the list is loading, and
\* only while the request of its own click is pending: when the request
\* has settled, no segment in the list is loading.
C35_OneRequest ==
    /\ [][(clicks' # clicks /\ pendingReq = "pending") =>
             UNCHANGED <<markers, segments, lastPoint, pendingReq, reqSegment>>]_vars
    /\ [](/\ pendingReq \in {"null", "pending"}
          /\ Cardinality(LoadingSegments) <= 1
          /\ \A k \in LoadingSegments :
                pendingReq = "pending" /\ segments[k].id = reqSegment.id
          /\ pendingReq = "null" => LoadingSegments = {})

\* a click arrived while the request of the click before it was pending,
\* and its segment is still the loading one
C35_Witness ==
    /\ pendingReq = "pending" /\ clicks > reqSegment.id
    /\ \E k \in LoadingSegments : segments[k].id = reqSegment.id
    /\ markers = 1..reqSegment.id

\* the step ends the promise chain of a click without a route: the chain
\* took the branch of lines 136-139 or ran its catch callback, whatever
\* threw (redraw in the first callback, the request, the parsing of its
\* answer, or the callback of line 133 on a route without points)
SettlesWithoutRoute ==
    /\ settleLog' # settleLog
    /\ settleLog'[Len(settleLog')].rollback

\* C36: rollback.  When a route request fails or returns null, or the chain
\* of a click fails before it has sent the request, the segment added by
\* that click is gone from the list, every other segment is left as it was,
\* and lastPoint is back at its value before that click, also when the undo
\* button was used while the request was pending.
C36_Rollback ==
    [][SettlesWithoutRoute =>
          LET chain == settleLog'[Len(settleLog')]
          IN  /\ segments' = SelectSeq(segments, LAMBDA g : g.id # chain.id)
              /\ lastPoint' = chain.from]_vars

\* the final point of a segment's geometry
FinalPoint(segment) == segment.geometry[Len(segment.geometry)]

\* C37: route continuity.  Whenever no request is pending and the segment
\* list is not empty, lastPoint is the final point of the last segment's
\* geometry and each segment starts at the final point of the segment
\* before it.
C37_RouteContinuity ==
    (pendingReq = "null" /\ Len(segments) > 0) =>
        /\ lastPoint = FinalPoint(segments[Len(segments)])
        /\ \A k \in 2..Len(segments) : segments[k].from = FinalPoint(segments[k - 1])

=============================================================================
